---------------------------- MODULE Spec2Model ----------------------------
(***************************************************************************)
(* A model of flight-domain-compile (.flight/bin/flight-domain-compile.py): *)
(* the compiler that turns a .flight domain spec into documentation, a     *)
(* bash validator script and a rule database.                              *)
(*                                                                         *)
(* Texts (shell fragments, patterns) are sequences of tokens.  A token is  *)
(* a one-character string where the character matters to shell quoting     *)
(* (backslash, double quote, dollar, backtick, single quote, blank) and a  *)
(* longer string for fixed program text ("grep", "${FILES[@]}").           *)
(***************************************************************************)
EXTENDS Integers, Sequences, FiniteSets, TLC

VARIABLES
    \* --- escaping: one check compiled and interpreted by the shell
    escCheck,      \* the check configuration being compiled
    escFragment,   \* text returned by generate_check_command
    escText,       \* the text the shell is reading (the fragment, then a bash -c script)
    escPos,        \* next position of escText to read
    escReader,     \* the shell reader's state
    escSearched,   \* what the shell hands to grep when the fragment runs
    escPhase       \* "input" | "outer" | "inner" | "interpreted"

escVars == <<escCheck, escFragment, escText, escPos, escReader, escSearched, escPhase>>

VARIABLES
    \* --- one domain spec compiled to a validator script, and the script run
    runData,       \* the raw spec
    script,        \* generate_sh's output: the parts of the script
    runState,      \* "spec" | "compiled" | "running" | "exited"
    ip,            \* the part of the script about to run
    nfiles,        \* ${#FILES[@]}, as far as the script looks: 0, or 1 for any positive count
    violating,     \* ids of the rules whose check prints something on these files
    apiDefined,    \* API_ENDPOINT_FILES has been assigned
    apiCount,      \* ${#API_ENDPOINT_FILES[@]}
    PASS, FAIL, WARN,
    log,           \* the result lines printed so far
    executed,      \* ids of the rules whose compiled command was run
    exitStatus,    \* the status the script process exited with
    exitedAt       \* where the script exited

runVars == <<runData, script, runState, ip, nfiles, violating, apiDefined, apiCount,
             PASS, FAIL, WARN, log, executed, exitStatus, exitedAt>>

VARIABLES
    \* --- main() and compile_domain() over the domains directory
    args,          \* the parsed command line
    flights,       \* per domain name: what its .flight file holds ("absent" if none)
    fs,            \* the artifact files: per (domain, extension) a file or none
    mainState,     \* "start" | "compiling" | "returned" | "raised"
    domains,       \* the domains main() compiles, in order
    cursor,           \* position in domains of the compile_domain call in progress
    pc,            \* the step of compile_domain about to run
    loaded,        \* data: what load_flight_file returned
    attempts,      \* per domain: how many times compile_domain was called on it
    results,       \* per domain: <<r>> once compile_domain returned r
    errorCount,    \* errors in main()
    mainResult,    \* <<r>> once the process has ended with status r
    validated,     \* the domains validate_spec was called on
    errs,          \* per domain: the errors validate_spec returned
    wrote,         \* per domain: the extensions its compile_domain call wrote, in order
    out            \* the lines printed about artifacts: dry-run results, syntax errors

pipeVars == <<args, flights, fs, mainState, domains, cursor, pc, loaded, attempts,
              results, errorCount, mainResult, validated, errs, wrote, out>>

VARIABLES
    \* --- one raw spec given to validate_spec, parse_domain_spec, generate_rules_json
    valData,       \* the raw spec
    valErrors,     \* errors returned by validate_spec
    valWarnings,   \* warnings returned by validate_spec
    valSpec,       \* the DomainSpec returned by parse_domain_spec
    valJson,       \* the document returned by generate_rules_json
    valPhase       \* "input" | "validated" | "parsed" | "exported"

valVars == <<valData, valErrors, valWarnings, valSpec, valJson, valPhase>>

VARIABLES
    \* --- one rule-database document at the write step of compile_domain
    gateContent,   \* json_content
    gateFile,      \* the .rules.json file
    gateResult,    \* <<r>> once compile_domain returned r
    gatePhase      \* "idle" | "input" | "returned"

gateVars == <<gateContent, gateFile, gateResult, gatePhase>>

VARIABLES
    \* --- one check compiled to a fragment, and the fragment run on a file set
    fragCompiler,  \* which compiler's generate_check_command rendered it
    fragCheck,     \* the check dict
    fragLines,     \* the lines of the files: per line, the regexes it matches
    fragCommand,   \* the fragment
    fragOutput,    \* what the fragment printed
    fragPhase      \* "idle" | "input" | "compiled" | "ran"

fragVars == <<fragCompiler, fragCheck, fragLines, fragCommand, fragOutput, fragPhase>>

VARIABLES
    \* --- one DomainSpec handed to the three output targets, in any order
    genSpec,       \* the shared DomainSpec
    genSpec0,      \* the DomainSpec parse_domain_spec returned
    genOut,        \* the calls made so far: target, day and text returned
    genToday       \* date.today() of the process, "" when idle

genVars == <<genSpec, genSpec0, genOut, genToday>>

vars == <<escVars, runVars, pipeVars, valVars, gateVars, fragVars, genVars>>

-----------------------------------------------------------------------------
(* Bounds *)

\* longest pattern string drawn as input
MaxLen == 4

\* how many tokens of a text the shell reader consumes in one step
ChunkLen == 8

\* most rules in a drawn domain spec
MaxRules == 2

\* most .flight files in the domains directory
MaxDomains == 2

\* most rules in a raw spec drawn for validate_spec
MaxValRules == 2

\* most rules in a raw spec drawn for the export order
MaxExportRules == 5

\* most rule entries in a rule-database document drawn for the write step
MaxGateRules == 1

\* longest presence message drawn
MaxMsgLen == 3

\* most lines in the file set a fragment is run on
MaxLines == 2

\* calls of the output targets on one DomainSpec
MaxCalls == 3

-----------------------------------------------------------------------------
(* Characters *)

BS == "\\"
DQ == "\""
DOLLAR == "$"
\* the backquote character (written out: the character cannot appear in a string here)
BT == "<backquote>"
SQ == "'"
SP == " "
NL == "\n"

\* the pattern alphabet: the five quoting characters and an ordinary one
Alphabet == {BS, DQ, DOLLAR, BT, SQ, "a"}

RECURSIVE SeqsUpTo(_, _)
SeqsUpTo(S, n) ==
    IF n = 0 THEN {<<>>}
    ELSE LET shorter == SeqsUpTo(S, n - 1)
         IN  shorter \cup {Append(s, c) : s \in {x \in shorter : Len(x) = n - 1}, c \in S}

Patterns == SeqsUpTo(Alphabet, MaxLen)

\* str.replace(old, new) for a one-character old and any replacement text
RECURSIVE Replace(_, _, _)
Replace(s, old, new) ==
    IF s = <<>> THEN <<>>
    ELSE (IF Head(s) = old THEN new ELSE <<Head(s)>>) \o Replace(Tail(s), old, new)

-----------------------------------------------------------------------------
(* Check configurations (the dict under a rule's "check" key) *)

NoCond == [pattern |-> <<>>, flags |-> <<>>, hasFlags |-> FALSE]

\* A check dict: has is the set of keys present; absent keys hold a filler.
MkCheck(has, type, pattern, message, conditions) ==
    [has |-> has, type |-> type, pattern |-> pattern, flags |-> <<>>,
     message |-> message, conditions |-> conditions, logic |-> "AND",
     code |-> <<>>, paths |-> <<>>, query |-> <<>>, exclude |-> <<>>]

\* dict.get(key, default)
Get(d, key, default) == IF key \in d.has THEN d[key] ELSE default

-----------------------------------------------------------------------------
(* Escaping *)

escape_bash_pattern_NoBackslash(pattern) ==
    Replace(Replace(Replace(pattern, DQ, <<BS, DQ>>), DOLLAR, <<BS, DOLLAR>>),
            BT, <<BS, BT>>)

escape_bash_pattern(pattern) ==
    LET r1 == Replace(pattern, BS, <<BS, BS>>)
        r2 == Replace(r1, DQ, <<BS, DQ>>)
        r3 == Replace(r2, DOLLAR, <<BS, DOLLAR>>)
        r4 == Replace(r3, BT, <<BS, BT>>)
    IN  r4

escape_for_single_quotes(s) == Replace(s, SQ, <<SQ, DQ, SQ, DQ, SQ>>)

escape_pattern_for_bash_c_QuoteFirst(pattern) ==
    LET r0 == Replace(pattern, SQ, <<SQ, DQ, SQ, DQ, SQ>>)
        r1 == Replace(r0, BS, <<BS, BS>>)
        r2 == Replace(r1, DOLLAR, <<BS, DOLLAR>>)
        r3 == Replace(r2, DQ, <<BS, DQ>>)
        r4 == Replace(r3, BT, <<BS, BT>>)
    IN  r4

escape_pattern_for_bash_c(pattern) ==
    LET r1 == Replace(pattern, BS, <<BS, BS>>)
        r2 == Replace(r1, DOLLAR, <<BS, DOLLAR>>)
        r3 == Replace(r2, DQ, <<BS, DQ>>)
        r4 == Replace(r3, BT, <<BS, BT>>)
        r5 == Replace(r4, SQ, <<SQ, DQ, SQ, DQ, SQ>>)
    IN  r5

-----------------------------------------------------------------------------
(* generate_check_command: the bash text of one check *)

FILES_AT == "${FILES[@]}"

\* flags[1:] if flags.startswith('-') else flags
StripDash(flags) == IF flags # <<>> /\ Head(flags) = "-" THEN Tail(flags) ELSE flags

\* flags[1:]
DropFirst(flags) == IF flags = <<>> THEN <<>> ELSE Tail(flags)

CondGrep(cond) ==
    <<"grep", SP, "-", "q">> \o DropFirst(IF cond.hasFlags THEN cond.flags ELSE <<"-", "E", "i">>)
    \o <<SP, DQ>> \o escape_pattern_for_bash_c(cond.pattern) \o <<DQ, SP, DQ, "$f", DQ>>

RECURSIVE JoinConds(_, _)
JoinConds(conds, operator) ==
    IF conds = <<>> THEN <<>>
    ELSE IF Len(conds) = 1 THEN CondGrep(conds[1])
    ELSE CondGrep(conds[1]) \o operator \o JoinConds(Tail(conds), operator)

generate_check_command(check) ==
    LET check_type == Get(check, "type", "")
    IN
    IF check_type = "grep" THEN
        <<"grep", SP>> \o Get(check, "flags", <<"-", "E">>) \o <<SP, DQ>>
        \o escape_bash_pattern(Get(check, "pattern", <<>>))
        \o <<DQ, SP, DQ, FILES_AT, DQ>>
    ELSE IF check_type = "presence" THEN
        <<"bash", SP, "-c", SP, SQ, "grep", SP, "-", "q">>
        \o StripDash(Get(check, "flags", <<"-", "l">>)) \o <<SP, DQ>>
        \o escape_pattern_for_bash_c(Get(check, "pattern", <<>>))
        \o <<DQ, SP, DQ, "$@", DQ, SP, "||", SP, "echo", SP, DQ>>
        \o escape_for_single_quotes(Get(check, "message", <<"Pattern not found">>))
        \o <<DQ, SQ, SP, "_", SP, DQ, FILES_AT, DQ>>
    ELSE IF check_type = "multi-condition" THEN
        LET conditions == Get(check, "conditions", <<>>)
            operator == IF Get(check, "logic", "AND") = "AND"
                        THEN <<SP, "&&", SP>> ELSE <<SP, "||", SP>>
        IN  IF Len(conditions) < 2 THEN <<"# multi-condition with < 2 conditions">>
            ELSE <<"bash", SP, "-c", SP, SQ, NL, "for", SP, "f", SP, "in", SP,
                   DQ, "$@", DQ, ";", SP, "do", NL, "if", SP>>
                 \o JoinConds(conditions, operator)
                 \o <<SP, "2>/dev/null", ";", SP, "then", NL, "echo", SP,
                      DQ, "$f", ": condition matched", DQ, NL, "fi", NL, "done", NL,
                      SQ, SP, "_", SP, DQ, FILES_AT, DQ>>
    ELSE IF check_type = "script" THEN
        <<"bash", SP, "-c", SP, SQ>>
        \o Replace(Get(check, "code", <<>>), SQ, <<SQ, DQ, SQ, DQ, SQ>>)
        \o <<SQ, SP, "_", SP, DQ, FILES_AT, DQ>>
    ELSE IF check_type = "file_exists" THEN
        <<"bash", SP, "-c", SP, SQ, NL, "if", SP, "!", SP, "ls", SP>>
        \o Get(check, "paths", <<>>)
        \o <<SP, "2>/dev/null", SP, "|", SP, "head", SP, "-1", SP, "|", SP,
             "grep", SP, "-q", SP, ".", ";", SP, "then", NL, "echo", SP, DQ>>
        \o Get(check, "message", <<"Required files not found">>)
        \o <<DQ, NL, "fi", NL, SQ, SP>>
    ELSE <<"# Unknown check type: ", check_type>>

-----------------------------------------------------------------------------
(* How bash reads a text: word splitting and quote removal.                *)
(* Outside quotes a blank or newline ends a word, a backslash quotes the   *)
(* next character, ' opens a single-quoted and " a double-quoted part.     *)
(* Inside single quotes every character is literal up to the next '.       *)
(* Inside double quotes a backslash is removed only before a backslash, a  *)
(* double quote, a dollar or a backquote, and a bare $name or a backquote   *)
(* starts an expansion.  A word that is not plain text (an                 *)
(* expansion happened, a quote is left open) makes the reading fail.       *)

\* The reader's state: the quoting mode, what a pending backslash or dollar
\* still has to decide, the word being built and the words finished so far.
LexStart == [ok |-> TRUE, mode |-> "none", pend |-> "", cur |-> <<>>,
             started |-> FALSE, words |-> <<>>]

LexPut(st, c) == [st EXCEPT !.cur = Append(st.cur, c), !.started = TRUE]

\* one character read with nothing pending
LexPlain(st, c) ==
    IF st.mode = "sq" THEN
        IF c = SQ THEN [st EXCEPT !.mode = "none"] ELSE LexPut(st, c)
    ELSE IF st.mode = "dq" THEN
        IF c = DQ THEN [st EXCEPT !.mode = "none"]
        ELSE IF c = BS THEN [st EXCEPT !.pend = "bs"]
        ELSE IF c = BT THEN [st EXCEPT !.ok = FALSE]
        ELSE IF c = DOLLAR THEN [st EXCEPT !.pend = "dollar"]
        ELSE LexPut(st, c)
    ELSE
        IF c \in {SP, NL} THEN
            [st EXCEPT !.words = IF st.started THEN Append(st.words, st.cur) ELSE st.words,
                       !.cur = <<>>, !.started = FALSE]
        ELSE IF c = SQ THEN [st EXCEPT !.mode = "sq", !.started = TRUE]
        ELSE IF c = DQ THEN [st EXCEPT !.mode = "dq", !.started = TRUE]
        ELSE IF c = BS THEN [st EXCEPT !.pend = "bs"]
        ELSE IF c = BT THEN [st EXCEPT !.ok = FALSE]
        ELSE IF c = DOLLAR THEN [st EXCEPT !.pend = "dollar"]
        ELSE LexPut(st, c)

\* one character read
LexStep(st, c) ==
    IF ~st.ok THEN st
    ELSE IF st.pend = "bs" THEN
        IF st.mode = "dq" /\ c \notin {BS, DQ, DOLLAR, BT}
        THEN LexPlain(LexPut([st EXCEPT !.pend = ""], BS), c)
        ELSE LexPut([st EXCEPT !.pend = ""], c)
    ELSE IF st.pend = "dollar" THEN
        IF c \in {"a", DOLLAR} \/ (st.mode = "none" /\ c \in {SQ, DQ})
        THEN [st EXCEPT !.ok = FALSE]
        ELSE LexPlain(LexPut([st EXCEPT !.pend = ""], DOLLAR), c)
    ELSE LexPlain(st, c)

\* the characters t[lo..hi] read in order, from state st
RECURSIVE LexRange(_, _, _, _)
LexRange(t, lo, hi, st) ==
    IF lo > hi THEN st
    ELSE IF lo = hi THEN LexStep(st, t[lo])
    ELSE LET mid == (lo + hi) \div 2
             left == LexRange(t, lo, mid, st)
         IN  IF left.ok THEN LexRange(t, mid + 1, hi, left) ELSE left

LexFail == [ok |-> FALSE, words |-> <<>>]

\* end of text: a pending backslash or dollar is literal, an open quote fails
LexFinish(st) ==
    LET fin == IF st.pend = "bs" THEN LexPut(st, BS)
               ELSE IF st.pend = "dollar" THEN LexPut(st, DOLLAR)
               ELSE st
    IN  IF ~st.ok \/ st.mode # "none" THEN LexFail
        ELSE [ok |-> TRUE,
              words |-> IF fin.started THEN Append(fin.words, fin.cur) ELSE fin.words]

\* The arguments grep is given as its pattern: in a word list, the word two
\* places after each word "grep" (grep, flags, pattern).
GrepPatterns(words) ==
    LET idx == {i \in 1..Len(words) : words[i] = <<"grep">> /\ i + 2 <= Len(words)}
        \* the k-th smallest index in idx
        nth(k) == CHOOSE i \in idx : Cardinality({j \in idx : j < i}) = k - 1
    IN  [k \in 1..Cardinality(idx) |-> words[nth(k) + 2]]

Unreadable == <<<<"unreadable">>>>

\* a word list that starts bash -c SCRIPT: SCRIPT goes to a second shell
IsBashC(words) ==
    Len(words) >= 3 /\ words[1] = <<"bash">> /\ words[2] = <<"-c">>

\* The patterns the check configuration asks for
DeclaredPatterns(check) ==
    IF check.type = "multi-condition"
    THEN [i \in 1..Len(check.conditions) |-> check.conditions[i].pattern]
    ELSE <<check.pattern>>

-----------------------------------------------------------------------------
(* The raw spec: the mapping yaml.safe_load returns for a .flight file.    *)
(* A dict is a record with a field has, the set of keys present.           *)

SEVERITIES == <<"NEVER", "MUST", "SHOULD", "GUIDANCE">>

InSeq(x, seq) == \E i \in 1..Len(seq) : seq[i] = x

NoCheck == MkCheck({}, "", <<>>, <<>>, <<>>)

NoProvenance == [has |-> {}, sources |-> <<>>, re_verify_after |-> "", confidence |-> "high"]

\* the dict of one rule
MkRuleData(has, title, severity, mechanical, check, api_files_only) ==
    [has |-> has, title |-> title, severity |-> severity, mechanical |-> mechanical,
     check |-> check, api_files_only |-> api_files_only, description |-> "",
     provenance |-> NoProvenance]

\* the rule dict with a provenance mapping: with or without sources, with a
\* re_verify_after date (past) or none, with low or high confidence
WithProvenance(rule_data, sourced, past, low) ==
    [rule_data EXCEPT
       !.has = @ \cup {"provenance"},
       !.provenance =
         [has |-> {"confidence"} \cup (IF sourced THEN {"sources"} ELSE {})
                    \cup (IF past # "" THEN {"re_verify_after"} ELSE {}),
          sources |-> IF sourced THEN <<"doc">> ELSE <<>>,
          re_verify_after |-> past,
          confidence |-> IF low THEN "low" ELSE "high"]]

\* the top-level dict; rules keeps the mapping's insertion (declaration) order
MkData(has, domain, rules, api_file_detection) ==
    [has |-> has, domain |-> domain, rules |-> rules,
     api_file_detection |-> api_file_detection,
     info |-> <<>>, provenance |-> [has |-> {}, next_audit_due |-> ""]]

\* every dict taken for non-empty
Truthy_Always(d) == TRUE

\* Python truth of a dict: non-empty
Truthy(d) == d.has # {}

-----------------------------------------------------------------------------
(* validate_spec *)

\* re.compile(pattern) succeeds: no trailing unescaped backslash, balanced
\* parentheses (the failures the pattern alphabet can produce)
RECURSIVE ReScan(_, _, _)
ReScan(p, escaped, depth) ==
    IF p = <<>> THEN ~escaped /\ depth = 0
    ELSE IF escaped THEN ReScan(Tail(p), FALSE, depth)
    ELSE IF Head(p) = BS THEN ReScan(Tail(p), TRUE, depth)
    ELSE IF Head(p) = "(" THEN ReScan(Tail(p), FALSE, depth + 1)
    ELSE IF Head(p) = ")" THEN depth > 0 /\ ReScan(Tail(p), FALSE, depth - 1)
    ELSE ReScan(Tail(p), FALSE, depth)

validate_regex_pattern(pattern) == ReScan(pattern, FALSE, 0)

\* the list with one more name in it
valid_types_WithFoo == <<"grep", "presence", "script", "multi-condition", "file_exists", "foo">>

valid_types == <<"grep", "presence", "script", "multi-condition", "file_exists">>

Err(kind, rule_id) == [kind |-> kind, rule |-> rule_id]

\* the errors validate_spec appends for one rule, in order
RuleErrors(rule_id, rule_data) ==
    LET severity == Get(rule_data, "severity", "")
        mech == Get(rule_data, "mechanical", FALSE)
        check == Get(rule_data, "check", NoCheck)
        check_type == Get(check, "type", "")
        pattern == Get(check, "pattern", <<>>)
        conds == Get(check, "conditions", <<>>)
    IN
    (IF "title" \notin rule_data.has THEN <<Err("missing title", rule_id)>> ELSE <<>>)
    \o (IF "severity" \notin rule_data.has THEN <<Err("missing severity", rule_id)>> ELSE <<>>)
    \o (IF severity # "" /\ ~InSeq(severity, SEVERITIES)
        THEN <<Err("invalid severity", rule_id)>> ELSE <<>>)
    \o (IF mech /\ ~Truthy(check)
        THEN <<Err("mechanical:true but no check config", rule_id)>> ELSE <<>>)
    \o (IF Truthy(check) /\ check_type # "" /\ ~InSeq(check_type, valid_types)
        THEN <<Err("unknown check type", rule_id)>> ELSE <<>>)
    \o (IF Truthy(check) /\ check_type \in {"grep", "presence"}
           /\ pattern # <<>> /\ ~validate_regex_pattern(pattern)
        THEN <<Err("invalid regex pattern", rule_id)>> ELSE <<>>)
    \o (IF Truthy(check) /\ check_type = "multi-condition"
        THEN SelectSeq([i \in 1..Len(conds) |->
                          IF conds[i].pattern # <<>> /\ ~validate_regex_pattern(conds[i].pattern)
                          THEN Err("condition has invalid regex pattern", rule_id)
                          ELSE Err("", rule_id)],
                       LAMBDA e : e.kind # "")
        ELSE <<>>)

\* the warnings validate_spec appends for one rule
RuleWarnings(rule_id, rule_data, today) ==
    LET prov == Get(rule_data, "provenance", NoProvenance)
        re_verify == Get(prov, "re_verify_after", "")
    IN
    IF ~Get(rule_data, "mechanical", FALSE) THEN <<>>
    ELSE (IF Get(prov, "sources", <<>>) = <<>>
          THEN <<Err("no sources (unverifiable)", rule_id)>> ELSE <<>>)
      \o (IF re_verify # "" /\ re_verify \in today.past
          THEN <<Err("stale", rule_id)>> ELSE <<>>)
      \o (IF Get(prov, "confidence", "high") = "low"
          THEN <<Err("low confidence", rule_id)>> ELSE <<>>)

\* the concatenation of f(rules[i]) over the rules, in order
RECURSIVE FlatMap(_, _, _, _)
FlatMap(f(_), rules, lo, hi) ==
    IF lo > hi THEN <<>>
    ELSE IF lo = hi THEN f(rules[lo])
    ELSE LET mid == (lo + hi) \div 2
         IN  FlatMap(f, rules, lo, mid) \o FlatMap(f, rules, mid + 1, hi)

NoRule == <<>>

\* the errors list validate_spec returns
SpecErrors(data) ==
    LET rules == Get(data, "rules", <<>>)
        ruleErrs(e) == RuleErrors(e.id, e.data)
    IN  (IF "domain" \notin data.has THEN <<Err("missing field domain", NoRule)>> ELSE <<>>)
        \o (IF "rules" \notin data.has THEN <<Err("missing field rules", NoRule)>> ELSE <<>>)
        \o FlatMap(ruleErrs, rules, 1, Len(rules))

\* the warnings list validate_spec returns; today is the current date, given
\* as the set of date strings before it
SpecWarnings(data, today) ==
    LET rules == Get(data, "rules", <<>>)
        domain_prov == Get(data, "provenance", [has |-> {}, next_audit_due |-> ""])
        next_audit == Get(domain_prov, "next_audit_due", "")
        ruleWarns(e) == RuleWarnings(e.id, e.data, today)
    IN  FlatMap(ruleWarns, rules, 1, Len(rules))
        \o (IF Truthy(domain_prov) /\ next_audit # "" /\ next_audit \in today.past
            THEN <<Err("audit overdue", NoRule)>> ELSE <<>>)

\* the warnings reported as errors too
validate_spec_WarningsAsErrors(data, today) ==
    [errors |-> SpecErrors(data) \o SpecWarnings(data, today),
     warnings |-> SpecWarnings(data, today)]

validate_spec(data, today) ==
    [errors |-> SpecErrors(data), warnings |-> SpecWarnings(data, today)]

-----------------------------------------------------------------------------
(* parse_domain_spec: the DomainSpec and its Rule objects *)

parse_rule(e) ==
    [id |-> e.id,
     title |-> Get(e.data, "title", ""),
     severity |-> Get(e.data, "severity", "GUIDANCE"),
     mechanical |-> Get(e.data, "mechanical", FALSE),
     description |-> Get(e.data, "description", ""),
     check |-> Get(e.data, "check", NoCheck),
     api_files_only |-> Get(e.data, "api_files_only", FALSE),
     provenance |-> Get(e.data, "provenance", NoProvenance)]

parse_rules(rules_data) == [i \in 1..Len(rules_data) |-> parse_rule(rules_data[i])]

NoDetection == [has |-> {}]

parse_domain_spec(data) ==
    [domain |-> Get(data, "domain", ""),
     api_file_detection |-> Get(data, "api_file_detection", NoDetection),
     rules |-> parse_rules(Get(data, "rules", <<>>)),
     info |-> Get(data, "info", <<>>)]

-----------------------------------------------------------------------------
(* DomainSpec.rules_by_severity: filter, then sorted by (id[0], int(id[1:])) *)

\* characters in code-point order, as Python compares one-character strings
CodePointOrder == <<"(", "0", "1", "2", "3", "4", "5", "6", "7", "8", "9",
                    "G", "M", "N", "S", "x">>

Index(x, seq) == CHOOSE i \in 1..Len(seq) : seq[i] = x

CharLess(a, b) == Index(a, CodePointOrder) < Index(b, CodePointOrder)

Digits == <<"0", "1", "2", "3", "4", "5", "6", "7", "8", "9">>

\* int(s) raises ValueError unless s is a non-empty run of digits
IntRaises(s) == s = <<>> \/ \E i \in 1..Len(s) : ~InSeq(s[i], Digits)

RECURSIVE IntOf(_)
IntOf(s) ==
    IF s = <<>> THEN 0
    ELSE IntOf(SubSeq(s, 1, Len(s) - 1)) * Len(Digits) + (Index(s[Len(s)], Digits) - 1)

\* the sort key of a rule is less than another's
KeyLess(r1, r2) ==
    \/ CharLess(r1.id[1], r2.id[1])
    \/ r1.id[1] = r2.id[1] /\ IntOf(Tail(r1.id)) < IntOf(Tail(r2.id))

\* sorted(seq, key=...): stable, so equal keys keep their order in seq
SortedBy(seq, less(_, _)) ==
    LET n == Len(seq)
        before(j, i) == less(seq[j], seq[i]) \/ (~less(seq[i], seq[j]) /\ j < i)
        \* rank[i]: how many elements come before seq[i] in the result
        rank == [i \in 1..n |-> Cardinality({j \in 1..n : before(j, i)})] \o <<>>
    IN  [k \in 1..n |-> seq[CHOOSE i \in 1..n : rank[i] = k - 1]]

\* declaration order kept: what a missing sort would return
rules_by_severity_Unsorted(spec, severity) ==
    SelectSeq(spec.rules, LAMBDA r : r.severity = severity)

rules_by_severity(spec, severity) ==
    SortedBy(SelectSeq(spec.rules, LAMBDA r : r.severity = severity), KeyLess)

\* the key function raises for a rule of this severity (empty id, or an id
\* whose tail int() rejects)
rules_by_severity_raises(spec, severity) ==
    \E i \in 1..Len(spec.rules) :
        /\ spec.rules[i].severity = severity
        /\ (spec.rules[i].id = <<>> \/ IntRaises(Tail(spec.rules[i].id)))

-----------------------------------------------------------------------------
(* generate_sh: the validator script, as the sequence of its parts *)

API_AT == "${API_ENDPOINT_FILES[@]}"

Part(kind, severity, rule, func, cmd) ==
    [kind |-> kind, severity |-> severity, id |-> rule.id, title |-> rule.title,
     func |-> func, api_files_only |-> rule.api_files_only, cmd |-> cmd]

NoRuleObj == [id |-> <<>>, title |-> "", api_files_only |-> FALSE]

FixedPart(kind, severity) == Part(kind, severity, NoRuleObj, "", <<>>)

\* every rule reported through the hard-fail wrapper
WrapperOf_AlwaysCheck(severity) == "check"

\* func = "check" if rule.severity in ("NEVER", "MUST") else "warn"
WrapperOf(severity) == IF severity \in {"NEVER", "MUST"} THEN "check" ELSE "warn"

\* the block without the guard on the API file subset
generate_rule_sh_NoGuard(rule) ==
    IF ~rule.mechanical THEN <<>>
    ELSE <<Part("rule", rule.severity, [rule EXCEPT !.api_files_only = FALSE],
                WrapperOf(rule.severity), generate_check_command(rule.check))>>

\* the text of one rule's block, or nothing for a non-mechanical rule
generate_rule_sh(rule) ==
    IF ~rule.mechanical THEN <<>>
    ELSE LET cmd == generate_check_command(rule.check)
             adjusted == IF rule.api_files_only
                         THEN [i \in 1..Len(cmd) |-> IF cmd[i] = FILES_AT THEN API_AT ELSE cmd[i]]
                         ELSE cmd
         IN  <<Part("rule", rule.severity, rule, WrapperOf(rule.severity), adjusted)>>

\* every severity gets a block
SH_SEVERITIES_WithGuidance == SEVERITIES

\* for severity in ["NEVER", "MUST", "SHOULD"]
SH_SEVERITIES == <<"NEVER", "MUST", "SHOULD">>

SeverityBlock(spec, severity) ==
    LET rules == SelectSeq(rules_by_severity(spec, severity), LAMBDA r : r.mechanical)
    IN  IF rules = <<>> THEN <<>>
        ELSE <<FixedPart("section", severity)>>
             \o FlatMap(generate_rule_sh, rules, 1, Len(rules))

generate_sh(spec) ==
    LET blocks(sev) == SeverityBlock(spec, sev)
    IN  <<FixedPart("header", "")>>
        \o (IF Truthy(spec.api_file_detection) THEN <<FixedPart("api_detection", "")>> ELSE <<>>)
        \o FlatMap(blocks, SH_SEVERITIES, 1, Len(SH_SEVERITIES))
        \o (IF spec.info # <<>> THEN <<FixedPart("info", "")>> ELSE <<>>)
        \o <<FixedPart("footer", "")>>

\* generate_sh raises (ValueError from the sort key) instead of returning
generate_sh_raises(spec) ==
    \E i \in 1..Len(SH_SEVERITIES) : rules_by_severity_raises(spec, SH_SEVERITIES[i])

-----------------------------------------------------------------------------
(* Running the generated script (generate_sh_header, generate_rule_sh,     *)
(* generate_sh_footer give the bash text of each part)                     *)

\* bash keeps the low eight bits of the argument of exit
ExitModulus == 256

\* exit "$FAIL"
ExitStatusOf(n) == n % ExitModulus

EscIdle ==
    /\ escCheck = NoCheck
    /\ escFragment = <<>>
    /\ escText = <<>>
    /\ escPos = 1
    /\ escReader = LexStart
    /\ escSearched = <<>>
    /\ escPhase = "idle"

RunIdle ==
    /\ runData = MkData({}, "", <<>>, NoDetection)
    /\ script = <<>>
    /\ runState = "idle"
    /\ ip = 1
    /\ nfiles = 0
    /\ violating = {}
    /\ apiDefined = FALSE
    /\ apiCount = 0
    /\ PASS = 0 /\ FAIL = 0 /\ WARN = 0
    /\ log = <<>>
    /\ executed = {}
    /\ exitStatus = 0
    /\ exitedAt = ""

\* file stems, in sorted order
AllNames == <<"a", "b", "c", "d">>

NameSeq == SubSeq(AllNames, 1, MaxDomains)

Names == {NameSeq[i] : i \in 1..MaxDomains}

\* .md, .validate.sh, .rules.json
Exts == {"md", "sh", "json"}

Paths == Names \X Exts

NoFile == [exists |-> FALSE, content |-> <<>>, mode |-> ""]

NoArgs == [all |-> FALSE, domain |-> "", check |-> FALSE, md_only |-> FALSE,
           sh_only |-> FALSE, json_only |-> FALSE, debug |-> FALSE]

PipeIdle ==
    /\ args = NoArgs
    /\ flights = [d \in Names |-> "absent"]
    /\ fs = [p \in Paths |-> NoFile]
    /\ mainState = "idle"
    /\ domains = <<>>
    /\ cursor = 0
    /\ pc = ""
    /\ loaded = MkData({}, "", <<>>, NoDetection)
    /\ attempts = [d \in Names |-> 0]
    /\ results = [d \in Names |-> <<>>]
    /\ errorCount = 0
    /\ mainResult = <<>>
    /\ validated = {}
    /\ errs = [d \in Names |-> <<>>]
    /\ wrote = [d \in Names |-> <<>>]
    /\ out = <<>>

ValIdle ==
    /\ valData = MkData({}, "", <<>>, NoDetection)
    /\ valErrors = <<>>
    /\ valWarnings = <<>>
    /\ valSpec = parse_domain_spec(MkData({}, "", <<>>, NoDetection))
    /\ valJson = <<>>
    /\ valPhase = "idle"

GateIdle ==
    /\ gateContent = <<>>
    /\ gateFile = NoFile
    /\ gateResult = <<>>
    /\ gatePhase = "idle"

FragIdle ==
    /\ fragCompiler = ""
    /\ fragCheck = NoCheck
    /\ fragLines = <<>>
    /\ fragCommand = <<>>
    /\ fragOutput = <<>>
    /\ fragPhase = "idle"

GenIdle ==
    /\ genSpec = <<>>
    /\ genSpec0 = <<>>
    /\ genOut = <<>>
    /\ genToday = ""

\* every command taken for one to run
IsStub_Never(cmd) == FALSE

\* a command that is only a comment runs nothing
IsStub(cmd) ==
    cmd # <<>> /\ Head(cmd) \in {"# multi-condition with < 2 conditions", "# Unknown check type: "}

\* ids of the rules whose block in the script holds a command to run
RunnableIds(sh) == {sh[i].id : i \in {j \in 1..Len(sh) : sh[j].kind = "rule" /\ ~IsStub(sh[j].cmd)}}

\* the file sets drawn for a script, each given by the rules it violates
\* (for a script of very many rules: the clean and the all-violating file set)
ViolationChoices(sh) ==
    IF Cardinality(RunnableIds(sh)) < ExitModulus THEN SUBSET RunnableIds(sh)
    ELSE {{}, RunnableIds(sh)}

\* compile_domain: spec = parse_domain_spec(data); sh_content = generate_sh(spec)
RunCompile ==
    /\ runState = "spec"
    /\ script' = generate_sh(parse_domain_spec(runData))
    /\ runState' = "compiled"
    /\ UNCHANGED <<runData, ip, nfiles, violating, apiDefined, apiCount,
                   PASS, FAIL, WARN, log, executed, exitStatus, exitedAt>>
    /\ UNCHANGED <<escVars, pipeVars, valVars, gateVars, fragVars, genVars>>

\* the script is started on a set of files
RunStart ==
    /\ runState = "compiled"
    /\ nfiles' \in {0, 1}
    /\ violating' \in ViolationChoices(script)
    /\ runState' = "running"
    /\ ip' = 1
    /\ UNCHANGED <<runData, script, apiDefined, apiCount,
                   PASS, FAIL, WARN, log, executed, exitStatus, exitedAt>>
    /\ UNCHANGED <<escVars, pipeVars, valVars, gateVars, fragVars, genVars>>

Running(kind) == runState = "running" /\ ip <= Len(script) /\ script[ip].kind = kind

Exit(status, where) ==
    /\ runState' = "exited"
    /\ exitStatus' = status
    /\ exitedAt' = where

\* header: counters, wrappers, file discovery; no files means SKIP, exit 0
RunHeader ==
    /\ Running("header")
    /\ IF nfiles = 0
       THEN Exit(0, "header") /\ UNCHANGED ip
       ELSE ip' = ip + 1 /\ UNCHANGED <<runState, exitStatus, exitedAt>>
    /\ UNCHANGED <<runData, script, nfiles, violating, apiDefined, apiCount,
                   PASS, FAIL, WARN, log, executed>>
    /\ UNCHANGED <<escVars, pipeVars, valVars, gateVars, fragVars, genVars>>

\* API_ENDPOINT_FILES=() and the loop that fills it with the files is_api_file accepts
RunApiDetection ==
    /\ Running("api_detection")
    /\ apiDefined' = TRUE
    /\ apiCount' \in 0..nfiles
    /\ ip' = ip + 1
    /\ UNCHANGED <<runData, script, runState, nfiles, violating,
                   PASS, FAIL, WARN, log, executed, exitStatus, exitedAt>>
    /\ UNCHANGED <<escVars, pipeVars, valVars, gateVars, fragVars, genVars>>

\* printf of a severity heading
RunSection ==
    /\ Running("section")
    /\ ip' = ip + 1
    /\ UNCHANGED <<runData, script, runState, nfiles, violating, apiDefined, apiCount,
                   PASS, FAIL, WARN, log, executed, exitStatus, exitedAt>>
    /\ UNCHANGED <<escVars, pipeVars, valVars, gateVars, fragVars, genVars>>

Line(what, id, note) == [line |-> what, id |-> id, note |-> note]

\* a warn wrapper that prints the warning and counts nothing
Outcome_WarnUncounted(func, result) ==
    IF ~result THEN "pass" ELSE IF func = "check" THEN "fail" ELSE "printed"

\* check() and warn(): the line printed and the counter incremented, by
\* whether the command printed a result
Outcome(func, result) ==
    IF ~result THEN "pass" ELSE IF func = "check" THEN "fail" ELSE "warn"

\* one rule block: the api_files_only guard, then the check or warn wrapper
RunRule ==
    /\ Running("rule")
    /\ LET p == script[ip]
           ran == ~IsStub(p.cmd)
           result == ran /\ p.id \in violating
       IN
       IF p.api_files_only /\ ~apiDefined THEN
            \* set -u: ${#API_ENDPOINT_FILES[@]} is an unbound variable
            /\ Exit(1, "unbound variable")
            /\ UNCHANGED <<ip, PASS, FAIL, WARN, log, executed>>
       ELSE IF p.api_files_only /\ apiCount = 0 THEN
            /\ PASS' = PASS + 1
            /\ log' = Append(log, Line("pass", p.id, "skipped - no API endpoint files"))
            /\ ip' = ip + 1
            /\ UNCHANGED <<FAIL, WARN, executed, runState, exitStatus, exitedAt>>
       ELSE
            /\ executed' = IF ran THEN executed \cup {p.id} ELSE executed
            /\ LET counted == Outcome(p.func, result)
               IN  /\ PASS' = PASS + (IF counted = "pass" THEN 1 ELSE 0)
                   /\ FAIL' = FAIL + (IF counted = "fail" THEN 1 ELSE 0)
                   /\ WARN' = WARN + (IF counted = "warn" THEN 1 ELSE 0)
                   /\ log' = Append(log, Line(counted, p.id, ""))
            /\ ip' = ip + 1
            /\ UNCHANGED <<runState, exitStatus, exitedAt>>
    /\ UNCHANGED <<runData, script, nfiles, violating, apiDefined, apiCount>>
    /\ UNCHANGED <<escVars, pipeVars, valVars, gateVars, fragVars, genVars>>

\* the info block prints metrics
RunInfo ==
    /\ Running("info")
    /\ ip' = ip + 1
    /\ UNCHANGED <<runData, script, runState, nfiles, violating, apiDefined, apiCount,
                   PASS, FAIL, WARN, log, executed, exitStatus, exitedAt>>
    /\ UNCHANGED <<escVars, pipeVars, valVars, gateVars, fragVars, genVars>>

\* footer: totals, then exit "$FAIL"
RunFooter ==
    /\ Running("footer")
    /\ Exit(ExitStatusOf(FAIL), "footer")
    /\ UNCHANGED <<runData, script, ip, nfiles, violating, apiDefined, apiCount,
                   PASS, FAIL, WARN, log, executed>>
    /\ UNCHANGED <<escVars, pipeVars, valVars, gateVars, fragVars, genVars>>

-----------------------------------------------------------------------------
(* Specification SpecRun: draw a domain spec, compile it, run the script *)

RuleKeys == {"title", "severity", "mechanical", "check", "api_files_only"}

GrepCheck == MkCheck({"type", "pattern"}, "grep", <<"a">>, <<>>, <<>>)

\* a check with a pattern and no type key
TypelessCheck == MkCheck({"pattern"}, "", <<"a">>, <<>>, <<>>)

PresenceCheck == MkCheck({"type", "pattern", "message"}, "presence", <<"a">>, <<"m">>, <<>>)

\* a multi-condition check of one condition compiles to a comment
StubCheck == MkCheck({"type", "conditions"}, "multi-condition", <<>>, <<>>,
                     <<[NoCond EXCEPT !.pattern = <<"a">>]>>)

RunRuleDatas ==
    {MkRuleData(RuleKeys, "T", sev, TRUE, GrepCheck, FALSE)
        : sev \in {"NEVER", "MUST", "SHOULD", "GUIDANCE"}}
    \cup {MkRuleData(RuleKeys, "T", sev, TRUE, GrepCheck, TRUE) : sev \in {"NEVER", "SHOULD"}}
    \cup {MkRuleData(RuleKeys, "T", "NEVER", FALSE, GrepCheck, FALSE),
          MkRuleData(RuleKeys, "T", "MUST", TRUE, PresenceCheck, FALSE),
          MkRuleData(RuleKeys, "T", "NEVER", TRUE, StubCheck, FALSE),
          MkRuleData(RuleKeys, "T", "NEVER", TRUE, TypelessCheck, FALSE)}

RunIds == {<<"N", "2">>, <<"N", "1", "0">>, <<"M", "1">>}

\* rule mappings of at most n entries, in every declaration order
RECURSIVE RuleSeqs(_)
RuleSeqs(n) ==
    IF n = 0 THEN {<<>>}
    ELSE LET shorter == RuleSeqs(n - 1)
         IN  shorter \cup
             {Append(rs, [id |-> id, data |-> d])
                : rs \in {x \in shorter : Len(x) = n - 1},
                  id \in RunIds, d \in RunRuleDatas}

UniqueIds(rs) == \A i, j \in 1..Len(rs) : rs[i].id = rs[j].id => i = j

SomeDetection == [has |-> {"paths"}]

RunDatas ==
    {MkData({"domain", "rules"}, "demo", rs, NoDetection)
        : rs \in {x \in RuleSeqs(MaxRules) : UniqueIds(x)}}
    \cup {MkData({"domain", "rules", "api_file_detection"}, "demo", rs, SomeDetection)
        : rs \in {x \in RuleSeqs(MaxRules) : UniqueIds(x)}}
    \cup {[MkData({"domain", "rules", "info"}, "demo", rs, NoDetection)
             EXCEPT !.info = <<"count">>]
        : rs \in {x \in RuleSeqs(MaxRules) : UniqueIds(x)}}

\* str(n) for n >= 0
RECURSIVE DigitsOf(_)
DigitsOf(n) ==
    IF n < Len(Digits) THEN <<Digits[n + 1]>>
    ELSE Append(DigitsOf(n \div Len(Digits)), Digits[(n % Len(Digits)) + 1])

\* a domain with as many NEVER rules (N1, N2, ...) as exit statuses exist
BigData ==
    MkData({"domain", "rules"}, "big",
           [i \in 1..ExitModulus |->
               [id |-> <<"N">> \o DigitsOf(i),
                data |-> MkRuleData(RuleKeys, "T", "NEVER", TRUE, GrepCheck, FALSE)]],
           NoDetection)

\* a date before today, as an ISO string
PastDate == "2020-01-01"

Today == [past |-> {PastDate}]

InitRun ==
    /\ EscIdle
    /\ PipeIdle
    /\ ValIdle
    /\ GateIdle
    /\ FragIdle
    /\ GenIdle
    /\ runData \in {d \in RunDatas \cup {BigData} : validate_spec(d, Today).errors = <<>>}
    /\ script = <<>>
    /\ runState = "spec"
    /\ ip = 1
    /\ nfiles = 0
    /\ violating = {}
    /\ apiDefined = FALSE
    /\ apiCount = 0
    /\ PASS = 0 /\ FAIL = 0 /\ WARN = 0
    /\ log = <<>>
    /\ executed = {}
    /\ exitStatus = 0
    /\ exitedAt = ""

NextRun ==
    \/ RunCompile
    \/ RunStart
    \/ RunHeader
    \/ RunApiDetection
    \/ RunSection
    \/ RunRule
    \/ RunInfo
    \/ RunFooter

SpecRun == InitRun /\ [][NextRun]_vars

-----------------------------------------------------------------------------
(* Properties of the generated script and of its runs *)

\* the parsed rule of the drawn spec with this id
\* position of a rule in the spec's rules mapping
DeclIndex(id) == CHOOSE i \in 1..Len(runData.rules) : runData.rules[i].id = id

RuleOf(id) == parse_rule(runData.rules[DeclIndex(id)])

\* per block of the script: the severity its rule declares ("" for other parts)
DeclaredSeverities ==
    [i \in 1..Len(script) |->
        IF script[i].kind = "rule" THEN RuleOf(script[i].id).severity ELSE ""] \o <<>>

\* per block of the script: the declaration position of its rule
DeclaredPositions ==
    [i \in 1..Len(script) |->
        IF script[i].kind = "rule" THEN DeclIndex(script[i].id) ELSE 0] \o <<>>

\* positions of the rule blocks in the script
RuleParts == {i \in 1..Len(script) : script[i].kind = "rule"}

\* the rule block about to run executes its command and the command prints
ViolatedStep ==
    /\ runState = "running" /\ ip \in RuleParts
    /\ executed' # executed
    /\ script[ip].id \in violating

C5_ExitStatusIsFail ==
    (runState = "exited" /\ exitedAt = "footer")
        => (exitStatus = FAIL /\ (exitStatus = 0 <=> FAIL = 0))

SeverityRank(severity) == Index(severity, SEVERITIES)

\* C6: in the generated script every NEVER rule block precedes every MUST
\* block, which precedes every SHOULD block, and no block belongs to a rule
\* of severity GUIDANCE.
C6_SeverityOrder ==
    runState = "compiled" =>
        LET sev == DeclaredSeverities
        IN  /\ \A i, j \in RuleParts :
                  i < j => SeverityRank(sev[i]) <= SeverityRank(sev[j])
            /\ \A i \in RuleParts : sev[i] # "GUIDANCE"

C6_Witness ==
    /\ runState = "compiled"
    /\ Len(runData.rules) = 2
    /\ runData.rules[1].data.severity = "SHOULD" /\ runData.rules[1].data.mechanical
    /\ runData.rules[2].data.severity = "NEVER" /\ runData.rules[2].data.mechanical
    /\ \E i, j \in RuleParts :
          i < j /\ script[i].id = runData.rules[2].id /\ script[j].id = runData.rules[1].id

\* C7 as stated: within a severity block, rule blocks follow the order in
\* which the rules are declared in the spec.
C7_DeclarationOrder ==
    runState = "compiled" =>
        LET sev == DeclaredSeverities
            pos == DeclaredPositions
        IN  \A i, j \in RuleParts : (i < j /\ sev[i] = sev[j]) => pos[i] < pos[j]

\* the sort key (category letter, ordinal as an integer) of a does not exceed b's
KeyAtMost(a, b) ==
    \/ CharLess(a[1], b[1])
    \/ a[1] = b[1] /\ IntOf(Tail(a)) <= IntOf(Tail(b))

\* C7 amended: within a severity block, rule blocks are in ascending order
\* of their ids' (category letter, ordinal compared as an integer), whatever
\* the declaration order.
C7_SortedById ==
    runState = "compiled" =>
        LET sev == DeclaredSeverities
        IN  \A i, j \in RuleParts :
                (i < j /\ sev[i] = sev[j]) => KeyAtMost(script[i].id, script[j].id)

C7_Witness ==
    /\ runState = "compiled"
    /\ Len(runData.rules) = 2
    /\ runData.rules[1].id = <<"N", "1", "0">>
    /\ runData.rules[2].id = <<"N", "2">>
    /\ \E i \in RuleParts :
          /\ i + 1 \in RuleParts
          /\ script[i].id = <<"N", "2">> /\ script[i + 1].id = <<"N", "1", "0">>

-----------------------------------------------------------------------------
(* generate_md: the markdown document, as the sequence of its entries *)

MdLine(kind, severity, number, title, description) ==
    [kind |-> kind, severity |-> severity, number |-> number, title |-> title,
     description |-> description]

generate_rule_md(rule, number) ==
    MdLine("rule", rule.severity, number, rule.title, rule.description)

MdSection(spec, severity) ==
    LET rules == rules_by_severity(spec, severity)
    IN  IF rules = <<>> THEN <<>>
        ELSE <<MdLine("section", severity, 0, "", "")>>
             \o [i \in 1..Len(rules) |-> generate_rule_md(rules[i], i)]

generate_md(spec) ==
    LET section(sev) == MdSection(spec, sev)
    IN  <<MdLine("header", "", 0, spec.domain, "")>>
        \o FlatMap(section, SEVERITIES, 1, Len(SEVERITIES))

-----------------------------------------------------------------------------
(* generate_rules_json: the .rules.json document *)

\* Python's None: distinct from every string (strings are sequences of
\* characters)
None == <<"None">>

\* json_rule, the dict of one exported rule
JsonRule(rule) ==
    [has |-> {"id", "title", "severity", "type", "pattern", "query", "message"},
     id |-> rule.id,
     title |-> rule.title,
     severity |-> rule.severity,
     type |-> "grep",
     pattern |-> Get(rule.check, "pattern", <<>>),
     query |-> None,
     message |-> IF rule.description # "" THEN rule.description ELSE rule.title]

\* without the test on rule.mechanical
convert_check_to_rule_AllRules(rule) ==
    IF Get(rule.check, "type", "grep") \notin {"grep", "presence"} THEN <<>>
    ELSE <<JsonRule(rule)>>

\* the JSON rule entry, as a sequence: empty where the code returns None
convert_check_to_rule(rule) ==
    LET check_type == Get(rule.check, "type", "grep")
    IN  IF ~rule.mechanical THEN <<>>
        ELSE IF check_type \notin {"grep", "presence"} THEN <<>>
        ELSE <<JsonRule(rule)>>

\* numeric_part.isdigit()
IsDigit(s) == s # <<>> /\ \A i \in 1..Len(s) : InSeq(s[i], Digits)

\* the key without the ordinal: the category letter alone
SortKeyLess_NoOrdinal(e1, e2) == CharLess(e1.id[1], e2.id[1])

\* sort_key: (prefix, int(numeric_part) if numeric_part.isdigit() else 0)
SortKeyLess(e1, e2) ==
    LET num(e) == IF IsDigit(Tail(e.id)) THEN IntOf(Tail(e.id)) ELSE 0
    IN  \/ CharLess(e1.id[1], e2.id[1])
        \/ e1.id[1] = e2.id[1] /\ num(e1) < num(e2)

\* the document is the one element of the content sequence
generate_rules_json(spec) ==
    <<[has |-> {"domain", "version", "language", "file_patterns", "rules"},
       domain |-> spec.domain,
       rules |-> SortedBy(FlatMap(convert_check_to_rule, spec.rules, 1, Len(spec.rules)),
                          SortKeyLess)]>>

\* only the top-level fields are required
validate_rules_json_TopOnly(json_content) ==
    {"domain", "version", "language", "file_patterns", "rules"} \subseteq json_content[1].has

\* TRUE where the code returns True, FALSE where it raises ValueError
validate_rules_json(json_content) ==
    LET rules_data == json_content[1]
        rules_list == Get(rules_data, "rules", <<>>)
    IN  /\ {"domain", "version", "language", "file_patterns", "rules"} \subseteq rules_data.has
        /\ \A i \in 1..Len(rules_list) :
              {"id", "title", "severity", "type", "message"} \subseteq rules_list[i].has

\* the rule blocks among the first n parts of a script
RuleBlocks(sh, n) == Cardinality({k \in 1..n : sh[k].kind = "rule"})

C28_WitnessInfo ==
    /\ runState = "exited" /\ exitedAt = "footer"
    /\ \E k \in 1..Len(script) : script[k].kind = "info"
    /\ PASS = 1 /\ FAIL = 1 /\ WARN = 0

\* C29: for a spec validate_spec accepts, each mechanical rule of severity
\* NEVER, MUST or SHOULD has exactly one block in the script and the block
\* holds a command to run: the script has no "Unknown check type" stub and
\* no disabled multi-condition stub.
C29_NoStubs ==
    runState # "spec" =>
        LET spec == parse_domain_spec(runData)
        IN  /\ \A i \in 1..Len(spec.rules) :
                  (spec.rules[i].mechanical
                   /\ spec.rules[i].severity \in {"NEVER", "MUST", "SHOULD"})
                     => Cardinality({k \in 1..Len(script) :
                                       script[k].kind = "rule"
                                       /\ script[k].id = spec.rules[i].id}) = 1
            /\ \A k \in 1..Len(script) : script[k].kind = "rule" => ~IsStub(script[k].cmd)

\* C30: for a spec validate_spec accepts, every rule id exported in the
\* rule database has a wrapper call in the script.
C30_ExportedChecked ==
    runState # "spec" =>
        LET exported == generate_rules_json(parse_domain_spec(runData))[1].rules
        IN  \A i \in 1..Len(exported) :
                \E k \in 1..Len(script) :
                    script[k].kind = "rule" /\ script[k].id = exported[i].id

-----------------------------------------------------------------------------
(* main() and compile_domain() *)

\* what a .flight file can hold: a spec that compiles, a spec validate_spec
\* rejects, a spec with a rule id whose tail is no number, text that is not YAML
FlightKinds == {"valid", "invalid", "badid", "unparsable"}

\* the mapping yaml.safe_load returns for the file of domain d. The valid
\* spec of the first domain draws every kind of warning (a rule without
\* sources, a stale rule of low confidence, an overdue audit); the valid
\* specs of the other domains draw none.
FlightData(d, kind) ==
    LET never == MkRuleData(RuleKeys, "T", "NEVER", TRUE, GrepCheck, FALSE)
        must == MkRuleData(RuleKeys, "U", "MUST", TRUE, PresenceCheck, FALSE)
        bogus == MkRuleData(RuleKeys, "T", "BOGUS", TRUE, GrepCheck, FALSE)
        warned == d = NameSeq[1]
        valid == MkData({"domain", "rules"}, d,
                        <<[id |-> <<"N", "1", "0">>,
                           data |-> IF warned THEN never ELSE WithProvenance(never, TRUE, "", FALSE)],
                          [id |-> <<"M", "1">>,
                           data |-> WithProvenance(must, TRUE, "", FALSE)],
                          [id |-> <<"N", "2">>,
                           data |-> IF warned THEN WithProvenance(never, TRUE, PastDate, TRUE)
                                    ELSE WithProvenance(never, TRUE, "", FALSE)]>>,
                        NoDetection)
    IN  IF kind = "valid" THEN
            IF warned
            THEN [valid EXCEPT !.has = @ \cup {"provenance"},
                               !.provenance = [has |-> {"next_audit_due"},
                                               next_audit_due |-> PastDate]]
            ELSE valid
        ELSE IF kind = "invalid" THEN
            MkData({"domain", "rules"}, d,
                   <<[id |-> <<"N", "1">>, data |-> bogus]>>, NoDetection)
        ELSE
            MkData({"domain", "rules"}, d,
                   <<[id |-> <<"N", "x">>, data |-> never]>>, NoDetection)

\* the content compile_domain generates for one artifact
Generated(spec, ext) ==
    IF ext = "md" THEN generate_md(spec)
    ELSE IF ext = "sh" THEN generate_sh(spec)
    ELSE generate_rules_json(spec)

\* an artifact file before the compiler starts: none, one with other
\* content, or the one a previous compilation of the same spec left
InitialFile(d, kind, ext, st) ==
    IF st = "absent" THEN NoFile
    ELSE IF st = "current" /\ kind = "valid"
    THEN [exists |-> TRUE,
          content |-> Generated(parse_domain_spec(FlightData(d, kind)), ext),
          mode |-> IF ext = "sh" THEN "755" ELSE "644"]
    ELSE [exists |-> TRUE, content |-> <<>>, mode |-> "644"]

\* path.write_text(content): creates the file, or replaces its content
WriteText(files, path, content) ==
    [files EXCEPT ![path] = [exists |-> TRUE, content |-> content,
                             mode |-> IF files[path].exists THEN files[path].mode ELSE "644"]]

\* sh_path.chmod(0o755)
Chmod(files, path) == [files EXCEPT ![path].mode = "755"]

\* the dry-run line for one artifact
CheckMessage(files, path, content) ==
    [path |-> path,
     msg |-> IF files[path].exists
             THEN (IF files[path].content # content THEN "would be updated" ELSE "unchanged")
             ELSE "would be created"]

\* if errors: ... return 1
ErrorsFound_Ignored(errors) == FALSE

ErrorsFound(errors) == errors # <<>>

\* if args.check: the dry-run branch, taken instead of the writing branch
DryRun_Off(a) == FALSE

DryRun(a) == a.check

Cur == domains[cursor]

\* the process ends with status r
MainEnds(state, r) ==
    /\ mainState' = state
    /\ mainResult' = <<r>>

\* an exception or sys.exit leaves compile_domain and main
Raise(kind) ==
    /\ MainEnds("raised", 1)
    /\ pc' = kind
    /\ UNCHANGED <<results, errorCount, cursor>>

\* compile_domain returns r to main, which goes on to the next domain or ends
CompileReturn(r) ==
    /\ results' = [results EXCEPT ![Cur] = <<r>>]
    /\ IF args.all
       THEN LET errors == errorCount + (IF r # 0 THEN 1 ELSE 0)
            IN  /\ errorCount' = errors
                /\ IF cursor < Len(domains)
                   THEN /\ cursor' = cursor + 1
                        /\ pc' = "yaml_syntax"
                        /\ UNCHANGED <<mainState, mainResult>>
                   ELSE /\ MainEnds("returned", IF errors > 0 THEN 1 ELSE 0)
                        /\ pc' = ""
                        /\ UNCHANGED cursor
       ELSE /\ MainEnds("returned", r)
            /\ pc' = ""
            /\ UNCHANGED <<errorCount, cursor>>

\* compile_domain goes on to its next step
Goto(step) ==
    /\ pc' = step
    /\ UNCHANGED <<results, errorCount, cursor, mainState, mainResult>>

\* the command lines main() rejects
ArgumentError(a) ==
    LET mode_flags == Cardinality({f \in {"md_only", "sh_only", "json_only"} : a[f]})
    IN  \/ a.domain = "" /\ ~a.all
        \/ a.domain # "" /\ a.all
        \/ mode_flags > 1

\* main(): the argument checks and the list of domains to compile
Main ==
    /\ mainState = "start"
    /\ LET
           flight_files == SelectSeq(NameSeq, LAMBDA d : flights[d] # "absent")
       IN  IF ArgumentError(args)
           THEN MainEnds("returned", 1) /\ UNCHANGED <<domains, cursor, pc>>
           ELSE IF args.all /\ flight_files = <<>>
           THEN MainEnds("returned", 1) /\ UNCHANGED <<domains, cursor, pc>>
           ELSE /\ domains' = IF args.all THEN flight_files ELSE <<args.domain>>
                /\ cursor' = 1
                /\ pc' = "yaml_syntax"
                /\ mainState' = "compiling"
                /\ UNCHANGED mainResult
    /\ UNCHANGED <<args, flights, fs, loaded, attempts, results, errorCount,
                   validated, errs, wrote, out>>
    /\ UNCHANGED <<escVars, runVars, valVars, gateVars, fragVars, genVars>>

\* compile_domain is entered; validate_yaml_syntax runs if the file exists.
\* It rejects only tabs and duplicate keys, and only where yaml.validate.sh
\* is present: text that is not YAML may be rejected or pass.
CompileYamlSyntax ==
    /\ mainState = "compiling" /\ pc = "yaml_syntax"
    /\ attempts' = [attempts EXCEPT ![Cur] = @ + 1]
    /\ \/ flights[Cur] = "unparsable" /\ CompileReturn(1)
       \/ Goto("load")
    /\ UNCHANGED <<args, flights, fs, domains, loaded, validated, errs, wrote, out>>
    /\ UNCHANGED <<escVars, runVars, valVars, gateVars, fragVars, genVars>>

\* load_flight_file: sys.exit(1) if the file is missing, else yaml.safe_load
CompileLoad ==
    /\ mainState = "compiling" /\ pc = "load"
    /\ IF flights[Cur] = "absent" THEN Raise("SystemExit") /\ UNCHANGED loaded
       ELSE IF flights[Cur] = "unparsable" THEN Raise("YAMLError") /\ UNCHANGED loaded
       ELSE loaded' = FlightData(Cur, flights[Cur]) /\ Goto("loaded")
    /\ UNCHANGED <<args, flights, fs, domains, attempts, validated, errs, wrote, out>>
    /\ UNCHANGED <<escVars, runVars, valVars, gateVars, fragVars, genVars>>

\* if args.debug: pprint(data); return 0
CompileDebug ==
    /\ mainState = "compiling" /\ pc = "loaded"
    /\ args.debug
    /\ CompileReturn(0)
    /\ UNCHANGED <<args, flights, fs, domains, loaded, attempts, validated, errs, wrote, out>>
    /\ UNCHANGED <<escVars, runVars, valVars, gateVars, fragVars, genVars>>

\* errors, warnings = validate_spec(data, domain); if errors: return 1
CompileValidate ==
    /\ mainState = "compiling" /\ pc = "loaded"
    /\ ~args.debug
    /\ LET errors == validate_spec(loaded, Today).errors
       IN  /\ validated' = validated \cup {Cur}
           /\ errs' = [errs EXCEPT ![Cur] = errors]
           /\ IF ErrorsFound(errors) THEN CompileReturn(1) ELSE Goto("summary")
    /\ UNCHANGED <<args, flights, fs, domains, loaded, attempts, wrote, out>>
    /\ UNCHANGED <<escVars, runVars, valVars, gateVars, fragVars, genVars>>

\* spec = parse_domain_spec(data) and the summary, which calls
\* rules_by_severity for each of SEVERITIES
CompileSummary ==
    /\ mainState = "compiling" /\ pc = "summary"
    /\ LET spec == parse_domain_spec(loaded)
       IN  IF \E i \in 1..Len(SEVERITIES) : rules_by_severity_raises(spec, SEVERITIES[i])
           THEN Raise("ValueError")
           ELSE Goto("md")
    /\ UNCHANGED <<args, flights, fs, domains, loaded, attempts, validated, errs, wrote, out>>
    /\ UNCHANGED <<escVars, runVars, valVars, gateVars, fragVars, genVars>>

\* the .md artifact
CompileMd ==
    /\ mainState = "compiling" /\ pc = "md"
    /\ LET spec == parse_domain_spec(loaded)
           md_path == <<spec.domain, "md">>
           md_content == generate_md(spec)
       IN  IF ~args.sh_only /\ ~args.json_only
           THEN IF DryRun(args)
                THEN /\ out' = Append(out, CheckMessage(fs, md_path, md_content))
                     /\ UNCHANGED <<fs, wrote>>
                ELSE /\ fs' = WriteText(fs, md_path, md_content)
                     /\ wrote' = [wrote EXCEPT ![Cur] = Append(@, "md")]
                     /\ UNCHANGED out
           ELSE UNCHANGED <<fs, wrote, out>>
    /\ Goto("sh")
    /\ UNCHANGED <<args, flights, domains, loaded, attempts, validated, errs>>
    /\ UNCHANGED <<escVars, runVars, valVars, gateVars, fragVars, genVars>>

\* what validate_shell_script prints when bash -n fails
SyntaxErrors(path) == [path |-> path, msg |-> "ERROR: Generated validator has syntax errors:"]

\* the failed syntax check not acted on
ShellChecked_Ignored(ok) == Goto("json")

\* if not validate_shell_script(sh_path): return 1
ShellChecked(ok) == IF ok THEN Goto("json") ELSE CompileReturn(1)

\* the .validate.sh artifact; once written it is made executable and
\* validate_shell_script (bash -n) passes it or not
CompileSh ==
    /\ mainState = "compiling" /\ pc = "sh"
    /\ LET spec == parse_domain_spec(loaded)
           sh_path == <<spec.domain, "sh">>
           sh_content == generate_sh(spec)
       IN  IF ~args.md_only /\ ~args.json_only
           THEN IF DryRun(args)
                THEN /\ out' = Append(out, CheckMessage(fs, sh_path, sh_content))
                     /\ UNCHANGED <<fs, wrote>>
                     /\ Goto("json")
                ELSE /\ fs' = Chmod(WriteText(fs, sh_path, sh_content), sh_path)
                     /\ wrote' = [wrote EXCEPT ![Cur] = Append(@, "sh")]
                     /\ \E ok \in BOOLEAN :
                           /\ out' = IF ok THEN out ELSE Append(out, SyntaxErrors(sh_path))
                           /\ ShellChecked(ok)
           ELSE UNCHANGED <<fs, wrote, out>> /\ Goto("json")
    /\ UNCHANGED <<args, flights, domains, loaded, attempts, validated, errs>>
    /\ UNCHANGED <<escVars, runVars, valVars, gateVars, fragVars, genVars>>

\* the .rules.json artifact, validated before it is written; return 0
CompileJson ==
    /\ mainState = "compiling" /\ pc = "json"
    /\ LET spec == parse_domain_spec(loaded)
           json_path == <<spec.domain, "json">>
           json_content == generate_rules_json(spec)
       IN  IF ~args.md_only /\ ~args.sh_only
           THEN IF DryRun(args)
                THEN /\ out' = Append(out, CheckMessage(fs, json_path, json_content))
                     /\ UNCHANGED <<fs, wrote>>
                     /\ CompileReturn(0)
                ELSE IF ~validate_rules_json(json_content)
                THEN UNCHANGED <<fs, wrote, out>> /\ CompileReturn(1)
                ELSE /\ fs' = WriteText(fs, json_path, json_content)
                     /\ wrote' = [wrote EXCEPT ![Cur] = Append(@, "json")]
                     /\ UNCHANGED out
                     /\ CompileReturn(0)
           ELSE UNCHANGED <<fs, wrote, out>> /\ CompileReturn(0)
    /\ UNCHANGED <<args, flights, domains, loaded, attempts, validated, errs>>
    /\ UNCHANGED <<escVars, runVars, valVars, gateVars, fragVars, genVars>>

\* the command lines drawn: every one main() accepts, and the rejected ones
\* without the flags that main() does not reach
CommandLines ==
    {a \in [all : BOOLEAN, domain : {"", NameSeq[1]}, check : BOOLEAN,
             md_only : BOOLEAN, sh_only : BOOLEAN, json_only : BOOLEAN,
             debug : BOOLEAN] :
        ArgumentError(a) => (~a.check /\ ~a.debug)}

\* the directories drawn: .flight files for the first n names
FlightDirs ==
    {f \in [Names -> FlightKinds \cup {"absent"}] :
        \E n \in 0..MaxDomains :
            \A i \in 1..MaxDomains : (f[NameSeq[i]] = "absent") <=> (i > n)}

Init ==
    /\ EscIdle
    /\ RunIdle
    /\ ValIdle
    /\ GateIdle
    /\ FragIdle
    /\ GenIdle
    /\ args \in CommandLines
    /\ flights \in FlightDirs
    /\ \E st \in [Exts -> {"absent", "stale", "current"}] :
          fs = [p \in Paths |-> InitialFile(p[1], flights[p[1]], p[2], st[p[2]])]
    /\ mainState = "start"
    /\ domains = <<>>
    /\ cursor = 0
    /\ pc = ""
    /\ loaded = MkData({}, "", <<>>, NoDetection)
    /\ attempts = [d \in Names |-> 0]
    /\ results = [d \in Names |-> <<>>]
    /\ errorCount = 0
    /\ mainResult = <<>>
    /\ validated = {}
    /\ errs = [d \in Names |-> <<>>]
    /\ wrote = [d \in Names |-> <<>>]
    /\ out = <<>>

Next ==
    \/ Main
    \/ CompileYamlSyntax
    \/ CompileLoad
    \/ CompileDebug
    \/ CompileValidate
    \/ CompileSummary
    \/ CompileMd
    \/ CompileSh
    \/ CompileJson

Spec == Init /\ [][Next]_vars

-----------------------------------------------------------------------------
(* Properties of compile_domain and main *)

\* C1: when validate_spec returns errors for a domain's spec, compile_domain
\* returns 1 for that domain and writes none of its .md, .validate.sh and
\* .rules.json artifacts.
C1_InvalidSpecWritesNothing ==
    \A d \in validated :
        errs[d] # <<>> => (results[d] = <<1>> /\ wrote[d] = <<>>)

C1_Witness ==
    /\ mainState = "returned"
    /\ ~args.all /\ ~args.check
    /\ NameSeq[1] \in validated
    /\ errs[NameSeq[1]] # <<>>
    /\ results[NameSeq[1]] = <<1>>
    /\ mainResult = <<1>>
    /\ \A ext \in Exts : ~fs[<<NameSeq[1], ext>>].exists

\* C9: a batch run attempts every domain exactly once whatever fails, and
\* ends with status 1 exactly when some domain failed.
C9_BatchAttemptsEveryDomain ==
    (args.all /\ domains # <<>> /\ mainState \in {"returned", "raised"})
        => /\ \A i \in 1..Len(domains) : attempts[domains[i]] = 1
           /\ mainResult = <<1>>
                <=> \E i \in 1..Len(domains) : results[domains[i]] # <<0>>

\* C10: with --check no step creates, overwrites or chmods an artifact,
\* whichever only-flag is given and whichever artifacts exist.
C10_CheckWritesNothing == [][args.check => fs' = fs]_vars

C10_Witness ==
    /\ mainState = "returned" /\ mainResult = <<0>>
    /\ args.check /\ ~args.all
    /\ Len(out) = Cardinality(Exts)
    /\ out[1].msg = "would be created" /\ ~fs[out[1].path].exists
    /\ out[2].msg = "would be updated" /\ fs[out[2].path].mode = "644"
    /\ out[3].msg = "unchanged"

\* C17: warnings never block compilation. When validate_spec finds no
\* errors in the loaded spec, compile_domain goes on to the summary and the
\* generation steps without returning, whatever warnings the spec draws.
C17_WarningsNeverBlock ==
    [][(mainState = "compiling" /\ pc = "loaded" /\ ~args.debug /\ SpecErrors(loaded) = <<>>)
          => (/\ pc' = "summary"
              /\ mainState' = "compiling"
              /\ results' = results
              /\ errorCount' = errorCount
              /\ mainResult' = mainResult)]_vars

C17_Witness ==
    /\ mainState = "returned" /\ mainResult = <<0>>
    /\ domains = <<NameSeq[1]>>
    /\ wrote[NameSeq[1]] = <<"md", "sh", "json">>
    /\ errs[NameSeq[1]] = <<>>
    /\ \A k \in {"no sources (unverifiable)", "stale", "low confidence", "audit overdue"} :
          \E i \in 1..Len(SpecWarnings(loaded, Today)) : SpecWarnings(loaded, Today)[i].kind = k

-----------------------------------------------------------------------------
(* Specification SpecVal: draw a raw spec, then call validate_spec,         *)
(* parse_domain_spec and generate_rules_json on it, as the module's callers *)
(* and tests do                                                             *)

Cond(p) == [NoCond EXCEPT !.pattern = p]

\* a tree-sitter query, as text
SomeQuery == <<"(", "a", ")">>

\* the check dicts drawn, by name
ValCheck(name) ==
    IF name = "absent" THEN NoCheck
    ELSE IF name = "empty" THEN NoCheck
    ELSE IF name = "grep" THEN GrepCheck
    ELSE IF name = "typeless" THEN TypelessCheck
    ELSE IF name = "presence" THEN PresenceCheck
    ELSE IF name = "grep-no-pattern" THEN MkCheck({"type"}, "grep", <<>>, <<>>, <<>>)
    ELSE IF name = "presence-no-pattern" THEN MkCheck({"type"}, "presence", <<>>, <<>>, <<>>)
    ELSE IF name = "grep-bad-regex" THEN MkCheck({"type", "pattern"}, "grep", <<"(">>, <<>>, <<>>)
    ELSE IF name = "foo" THEN MkCheck({"type", "pattern"}, "foo", <<"a">>, <<>>, <<>>)
    ELSE IF name = "ast" THEN
        [MkCheck({"type", "query"}, "ast", <<>>, <<>>, <<>>) EXCEPT !.query = SomeQuery]
    ELSE IF name = "ast-no-query" THEN MkCheck({"type"}, "ast", <<>>, <<>>, <<>>)
    ELSE IF name = "multi-0" THEN MkCheck({"type"}, "multi-condition", <<>>, <<>>, <<>>)
    ELSE IF name = "multi-1" THEN
        MkCheck({"type", "conditions"}, "multi-condition", <<>>, <<>>, <<Cond(<<"a">>)>>)
    ELSE MkCheck({"type", "conditions"}, "multi-condition", <<>>, <<>>,
                 <<Cond(<<"a">>), Cond(<<"b">>)>>)

CheckNames == {"absent", "empty", "grep", "typeless", "presence", "grep-no-pattern",
               "presence-no-pattern", "grep-bad-regex", "foo", "ast", "ast-no-query",
               "multi-0", "multi-1", "multi-2"}

\* a rule dict with this check; the key check is missing for "absent"
RuleWithCheck(name, mech) ==
    MkRuleData(IF name = "absent" THEN RuleKeys \ {"check"} ELSE RuleKeys,
               "T", "NEVER", mech, ValCheck(name), FALSE)

\* a rule dict with a sound grep check and this title key and severity
\* ("absent": no severity key; "": the empty string, False like YAML null)
RuleWithSeverity(hasTitle, sev) ==
    MkRuleData((RuleKeys \ (IF hasTitle THEN {} ELSE {"title"}))
                 \ (IF sev = "absent" THEN {"severity"} ELSE {}),
               "T", IF sev = "absent" THEN "" ELSE sev, TRUE, GrepCheck, FALSE)

\* a mechanical rule dict with provenance that draws these warnings
RuleWithProvenance(sourced, stale, low) ==
    WithProvenance(MkRuleData(RuleKeys, "T", "SHOULD", TRUE, GrepCheck, FALSE),
                   sourced, IF stale THEN PastDate ELSE "", low)

\* the rule dicts drawn: every check on a mechanical rule, some on a rule
\* that is not mechanical, every severity, a missing title, every provenance
ValRuleDatas ==
    {RuleWithCheck(name, TRUE) : name \in CheckNames}
    \cup {RuleWithCheck(name, FALSE) : name \in {"absent", "grep", "presence", "ast"}}
    \cup {RuleWithSeverity(TRUE, sev) :
            sev \in {"absent", "", "NEVER", "MUST", "SHOULD", "GUIDANCE", "BOGUS"}}
    \cup {RuleWithSeverity(FALSE, sev) : sev \in {"absent", "NEVER"}}
    \cup {RuleWithProvenance(so, st, lo) : so \in BOOLEAN, st \in BOOLEAN, lo \in BOOLEAN}

\* N1, N2, ...: the id of the i-th rule drawn
IdAt(i) == <<"N">> \o DigitsOf(i)

\* rule mappings of exactly n entries drawn from ValRuleDatas
ValRuleSeqs(n) == {[i \in 1..n |-> [id |-> IdAt(i), data |-> f[i]]] : f \in [1..n -> ValRuleDatas]}

\* ids drawn for the export order
ExportIds == {<<"N", "2">>, <<"N", "1">>, <<"S", "1", "0">>, <<"S", "2">>, <<"M", "1">>,
              <<"N", "1", "0">>}

\* every declaration order of every set of at most n of the ids
RECURSIVE ExportOrders(_)
ExportOrders(n) ==
    IF n = 0 THEN {<<>>}
    ELSE LET shorter == ExportOrders(n - 1)
         IN  shorter \cup
             {Append(ids, id) : ids \in {x \in shorter : Len(x) = n - 1}, id \in ExportIds}

ExportRuleSeqs(n) ==
    {[i \in 1..Len(ids) |->
        [id |-> ids[i], data |-> MkRuleData(RuleKeys, "T", "NEVER", TRUE, GrepCheck, FALSE)]]
      : ids \in {x \in ExportOrders(n) : \A i, j \in 1..Len(x) : x[i] = x[j] => i = j}}

\* the raw specs drawn: up to MaxValRules rules, up to MaxExportRules rules
\* in each declaration order, missing top-level keys, an overdue audit
InitVal ==
    /\ EscIdle
    /\ RunIdle
    /\ PipeIdle
    /\ GateIdle
    /\ FragIdle
    /\ GenIdle
    /\ \/ \E k \in 0..MaxValRules : \E rs \in ValRuleSeqs(k) :
             valData = MkData({"domain", "rules"}, "demo", rs, NoDetection)
       \/ \E rs \in ExportRuleSeqs(MaxExportRules) :
             valData = MkData({"domain", "rules"}, "demo", rs, NoDetection)
       \/ \E has \in SUBSET {"domain", "rules"} :
             valData = MkData(has, "demo", <<>>, NoDetection)
       \/ \E rs \in ValRuleSeqs(1) :
             valData = [MkData({"domain", "rules", "provenance"}, "demo", rs, NoDetection)
                          EXCEPT !.provenance = [has |-> {"next_audit_due"},
                                                 next_audit_due |-> PastDate]]
    /\ valErrors = <<>>
    /\ valWarnings = <<>>
    /\ valSpec = parse_domain_spec(MkData({}, "", <<>>, NoDetection))
    /\ valJson = <<>>
    /\ valPhase = "input"

\* errors, warnings = validate_spec(data, domain)
ValValidate ==
    /\ valPhase = "input"
    /\ LET r == validate_spec(valData, Today)
       IN  valErrors' = r.errors /\ valWarnings' = r.warnings
    /\ valPhase' = "validated"
    /\ UNCHANGED <<valData, valSpec, valJson>>
    /\ UNCHANGED <<escVars, runVars, pipeVars, gateVars, fragVars, genVars>>

\* spec = parse_domain_spec(data)
ValParse ==
    /\ valPhase = "validated"
    /\ valSpec' = parse_domain_spec(valData)
    /\ valPhase' = "parsed"
    /\ UNCHANGED <<valData, valErrors, valWarnings, valJson>>
    /\ UNCHANGED <<escVars, runVars, pipeVars, gateVars, fragVars, genVars>>

\* json_content = generate_rules_json(spec)
ValExport ==
    /\ valPhase = "parsed"
    /\ valJson' = generate_rules_json(valSpec)
    /\ valPhase' = "exported"
    /\ UNCHANGED <<valData, valErrors, valWarnings, valSpec>>
    /\ UNCHANGED <<escVars, runVars, pipeVars, gateVars, fragVars, genVars>>

NextVal ==
    \/ ValValidate
    \/ ValParse
    \/ ValExport

SpecVal == InitVal /\ [][NextVal]_vars

\* C27: writing all three artifacts, compile_domain persists them in the
\* order md, sh, json; the syntax check of the script comes after the script
\* is written; when it fails compile_domain returns 1 with the .md and the
\* script persisted and the .rules.json not written.
C27_WriteOrder ==
    (~DryRun(args) /\ ~args.md_only /\ ~args.sh_only /\ ~args.json_only) =>
        \A d \in Names :
            /\ wrote[d] \in {<<>>, <<"md">>, <<"md", "sh">>, <<"md", "sh", "json">>}
            /\ (\E k \in 1..Len(out) : out[k] = SyntaxErrors(<<d, "sh">>)) =>
                  /\ wrote[d] = <<"md", "sh">>
                  /\ results[d] = <<1>>
                  /\ fs[<<d, "md">>].exists
                  /\ fs[<<d, "sh">>].exists /\ fs[<<d, "sh">>].mode = "755"

C27_Witness ==
    /\ ~DryRun(args) /\ ~args.md_only /\ ~args.sh_only /\ ~args.json_only
    /\ out = <<SyntaxErrors(<<NameSeq[1], "sh">>)>>
    /\ results[NameSeq[1]] = <<1>>
    /\ wrote[NameSeq[1]] = <<"md", "sh">>
    /\ ~fs[<<NameSeq[1], "json">>].exists
    /\ mainResult = <<1>>

-----------------------------------------------------------------------------
(* Properties of validate_spec *)

ValRules == Get(valData, "rules", <<>>)

\* the drawn spec with its i-th rule taken out
WithoutRule(i) ==
    [valData EXCEPT !.rules = SubSeq(ValRules, 1, i - 1) \o SubSeq(ValRules, i + 1, Len(ValRules))]

\* rule i is mechanical, has title and severity, and its check is absent or empty
MechanicalNoCheck(i) ==
    ValRules[i].data \in {RuleWithCheck("absent", TRUE), RuleWithCheck("empty", TRUE)}

\* C12: a spec that is valid but for one rule with mechanical=true and an
\* absent or empty check gets exactly one error from validate_spec, the one
\* whose text is "Rule <id> has mechanical:true but no check config".
C12_MechanicalNeedsCheck ==
    valPhase # "input" =>
        \A i \in 1..Len(ValRules) :
            (MechanicalNoCheck(i) /\ validate_spec(WithoutRule(i), Today).errors = <<>>)
                => valErrors = <<Err("mechanical:true but no check config", ValRules[i].id)>>

C12_Witness ==
    /\ valPhase = "validated"
    /\ Len(ValRules) = 2
    /\ ValRules[1].data = RuleWithCheck("grep", TRUE)
    /\ ValRules[2].data = RuleWithCheck("absent", TRUE)
    /\ valErrors = <<Err("mechanical:true but no check config", IdAt(2))>>

\* C13: a rule whose check names a type that is in no list of known types
\* (such as "foo") gets an error "Rule <id> has unknown check type".
C13_UnknownCheckType ==
    valPhase # "input" =>
        \A i \in 1..Len(ValRules) :
            LET check == Get(ValRules[i].data, "check", NoCheck)
            IN  ("type" \in check.has /\ check.type = "foo")
                    => InSeq(Err("unknown check type", ValRules[i].id), valErrors)

C13_Witness ==
    /\ valPhase = "validated"
    /\ Len(ValRules) = 1
    /\ ValRules[1].data = RuleWithCheck("foo", TRUE)
    /\ valErrors = <<Err("unknown check type", IdAt(1))>>

\* C14: validate_spec returns no errors for a spec whose rules all have a
\* title, a severity and either a grep check with a pattern or an ast check
\* with a query, at least one of them an ast check.
C14_AstAccepted ==
    (/\ valPhase # "input"
     /\ "domain" \in valData.has
     /\ Len(ValRules) > 0
     /\ \A i \in 1..Len(ValRules) :
           ValRules[i].data \in {RuleWithCheck("ast", TRUE), RuleWithCheck("grep", TRUE)}
     /\ \E i \in 1..Len(ValRules) : ValRules[i].data = RuleWithCheck("ast", TRUE))
        => valErrors = <<>>

\* C15: validate_spec returns an error for a rule whose grep or presence
\* check has no pattern, whose ast check has no query, or whose
\* multi-condition check has fewer than 2 conditions.
C15_StructuralViolations ==
    valPhase # "input" =>
        \A i \in 1..Len(ValRules) :
            (\E name \in {"grep-no-pattern", "presence-no-pattern", "ast-no-query",
                          "multi-0", "multi-1"} :
                 ValRules[i].data = RuleWithCheck(name, TRUE))
                => \E k \in 1..Len(valErrors) : valErrors[k].rule = ValRules[i].id

\* C16: when validate_spec returns no errors, every rule entry has a title
\* and a severity that is one of NEVER, MUST, SHOULD, GUIDANCE.
C16_ValidatedSeverity ==
    (valPhase # "input" /\ valErrors = <<>>) =>
        \A i \in 1..Len(ValRules) :
            /\ "title" \in ValRules[i].data.has
            /\ "severity" \in ValRules[i].data.has
            /\ InSeq(ValRules[i].data.severity, SEVERITIES)

-----------------------------------------------------------------------------
(* Properties of generate_rules_json *)

\* the rules list of the exported document
ExportedRules == valJson[1].rules

\* the ids of a list of rule entries or records, in order
IdsOf(entries) == [i \in 1..Len(entries) |-> entries[i].id]

\* C18: the exported database holds no record for a rule with
\* mechanical=false, every record's type is "grep" or "ast", and a
\* mechanical rule whose check has type presence or no type is exported
\* with type "grep".
C18_ExportedRecords ==
    valPhase = "exported" =>
        /\ \A k \in 1..Len(ExportedRules) :
              /\ ExportedRules[k].type \in {"grep", "ast"}
              /\ \E i \in 1..Len(ValRules) :
                    /\ ValRules[i].id = ExportedRules[k].id
                    /\ "mechanical" \in ValRules[i].data.has
                    /\ ValRules[i].data.mechanical
        /\ \A i \in 1..Len(ValRules) :
              ValRules[i].data \in {RuleWithCheck("presence", TRUE), RuleWithCheck("typeless", TRUE)}
                  => \E k \in 1..Len(ExportedRules) :
                        /\ ExportedRules[k].id = ValRules[i].id
                        /\ ExportedRules[k].type = "grep"

C18_Witness ==
    /\ valPhase = "exported"
    /\ Len(ValRules) = 2
    /\ ValRules[1].data = RuleWithCheck("grep", FALSE)
    /\ ValRules[2].data = RuleWithCheck("presence", TRUE)
    /\ IdsOf(ExportedRules) = <<IdAt(2)>>
    /\ ExportedRules[1].type = "grep"

\* C19: a mechanical rule with an ast check and a query is exported as a
\* record with type "ast", the check's query and a null pattern; a
\* mechanical rule with a grep check is exported with its pattern and a null
\* query.
C19_AstRecord ==
    valPhase = "exported" =>
        \A i \in 1..Len(ValRules) :
            /\ ValRules[i].data = RuleWithCheck("ast", TRUE)
                  => \E k \in 1..Len(ExportedRules) :
                        /\ ExportedRules[k].id = ValRules[i].id
                        /\ ExportedRules[k].type = "ast"
                        /\ ExportedRules[k].query = SomeQuery
                        /\ ExportedRules[k].pattern = None
            /\ ValRules[i].data = RuleWithCheck("grep", TRUE)
                  => \E k \in 1..Len(ExportedRules) :
                        /\ ExportedRules[k].id = ValRules[i].id
                        /\ ExportedRules[k].type = "grep"
                        /\ ExportedRules[k].pattern = GrepCheck.pattern
                        /\ ExportedRules[k].query = None

\* C20: whatever the declaration order, the exported records are the
\* exportable rules in ascending order of (category letter, ordinal compared
\* as an integer).
C20_ExportSorted ==
    valPhase = "exported" =>
        /\ \A i, j \in 1..Len(ExportedRules) :
              i < j => KeyAtMost(ExportedRules[i].id, ExportedRules[j].id)
        /\ \A i \in 1..Len(valSpec.rules) :
              convert_check_to_rule(valSpec.rules[i]) # <<>>
                  => InSeq(valSpec.rules[i].id, IdsOf(ExportedRules))
        /\ Len(ExportedRules)
              = Cardinality({i \in 1..Len(valSpec.rules) : convert_check_to_rule(valSpec.rules[i]) # <<>>})

C20_Witness ==
    /\ valPhase = "exported"
    /\ IdsOf(ValRules) = <<<<"N", "2">>, <<"N", "1">>, <<"S", "1", "0">>, <<"S", "2">>, <<"M", "1">>>>
    /\ IdsOf(ExportedRules) = <<<<"M", "1">>, <<"N", "1">>, <<"N", "2">>, <<"S", "2">>, <<"S", "1", "0">>>>

-----------------------------------------------------------------------------
(* Specification SpecGate: the writing branch of the .rules.json step of    *)
(* compile_domain, for a document json_content with any of the fields       *)
(* validate_rules_json looks for absent                                     *)

\* a rule entry with these keys
GateRule(has) ==
    [JsonRule(parse_rule([id |-> IdAt(1),
                          data |-> MkRuleData(RuleKeys, "T", "NEVER", TRUE, GrepCheck, FALSE)]))
       EXCEPT !.has = has]

\* rule lists of exactly n entries
GateRuleSeqs(n) ==
    [1..n -> {GateRule(has) : has \in SUBSET {"id", "title", "severity", "type", "message"}}]

\* the documents drawn
GateDocs(n) ==
    {[has |-> has, domain |-> "demo", rules |-> rs]
        : has \in SUBSET {"domain", "version", "language", "file_patterns", "rules"},
          rs \in UNION {GateRuleSeqs(k) : k \in 0..n}}

\* the .rules.json file before the step: none, or one an earlier run left
GateFiles == {NoFile, [exists |-> TRUE, content |-> <<>>, mode |-> "644"]}

InitGate ==
    /\ EscIdle
    /\ RunIdle
    /\ PipeIdle
    /\ ValIdle
    /\ FragIdle
    /\ GenIdle
    /\ \E doc \in GateDocs(MaxGateRules) : gateContent = <<doc>>
    /\ gateFile \in GateFiles
    /\ gateResult = <<>>
    /\ gatePhase = "input"

\* try: validate_rules_json(json_content) / except ValueError: return 1;
\* json_path.write_text(json_content); return 0
GateWrite ==
    /\ gatePhase = "input"
    /\ IF ~validate_rules_json(gateContent)
       THEN /\ gateResult' = <<1>>
            /\ UNCHANGED gateFile
       ELSE /\ gateFile' = [exists |-> TRUE, content |-> gateContent,
                            mode |-> IF gateFile.exists THEN gateFile.mode ELSE "644"]
            /\ gateResult' = <<0>>
    /\ gatePhase' = "returned"
    /\ UNCHANGED gateContent
    /\ UNCHANGED <<escVars, runVars, pipeVars, valVars, fragVars, genVars>>

NextGate == GateWrite

SpecGate == InitGate /\ [][NextGate]_vars

\* C11: in write mode the rule-database document is written only when it has
\* every required top-level field (domain, version, language, file_patterns,
\* rules) and every rule entry has id, title, severity, type and message;
\* when a field is missing, compile_domain returns 1 and the file is left as
\* it was.
C11_ValidatedBeforeWrite ==
    [][gatePhase = "input" =>
         LET doc == gateContent[1]
             complete ==
                 /\ \A f \in {"domain", "version", "language", "file_patterns", "rules"} :
                       f \in doc.has
                 /\ \A i \in 1..Len(doc.rules) :
                       \A f \in {"id", "title", "severity", "type", "message"} :
                           f \in doc.rules[i].has
         IN  IF complete
             THEN /\ gateResult' = <<0>>
                  /\ gateFile'.exists /\ gateFile'.content = gateContent
             ELSE /\ gateResult' = <<1>>
                  /\ gateFile' = gateFile]_vars

C11_Witness ==
    /\ gatePhase = "returned"
    /\ gateContent[1].has = {"domain", "version", "language", "file_patterns", "rules"}
    /\ Len(gateContent[1].rules) = 1
    /\ gateContent[1].rules[1].has = {"id", "title", "severity", "type"}
    /\ gateResult = <<1>>
    /\ gateFile = [exists |-> TRUE, content |-> <<>>, mode |-> "644"]

-----------------------------------------------------------------------------
(* Specification SpecSh: generate_sh called on a parsed spec whatever       *)
(* validate_spec says of it, and the script run                             *)

\* mechanical rules with a runnable check and with every check that
\* generate_check_command renders as a comment
ShRuleDatas ==
    {RuleWithCheck(name, TRUE)
        : name \in {"grep", "ast", "foo", "typeless", "multi-0", "multi-1", "multi-2"}}
    \cup {[RuleWithCheck("ast", TRUE) EXCEPT !.severity = "SHOULD"]}

\* rule mappings of exactly n entries drawn from ShRuleDatas
ShRuleSeqs(n) == {[i \in 1..n |-> [id |-> IdAt(i), data |-> f[i]]] : f \in [1..n -> ShRuleDatas]}

InitSh ==
    /\ EscIdle
    /\ PipeIdle
    /\ ValIdle
    /\ GateIdle
    /\ FragIdle
    /\ GenIdle
    /\ \E n \in 0..MaxRules : \E rs \in ShRuleSeqs(n) :
          \/ runData = MkData({"domain", "rules"}, "demo", rs, NoDetection)
          \/ runData = MkData({"domain", "rules", "api_file_detection"}, "demo", rs, SomeDetection)
          \/ runData = [MkData({"domain", "rules", "info"}, "demo", rs, NoDetection)
                          EXCEPT !.info = <<"count">>]
    /\ script = <<>>
    /\ runState = "spec"
    /\ ip = 1
    /\ nfiles = 0
    /\ violating = {}
    /\ apiDefined = FALSE
    /\ apiCount = 0
    /\ PASS = 0 /\ FAIL = 0 /\ WARN = 0
    /\ log = <<>>
    /\ executed = {}
    /\ exitStatus = 0
    /\ exitedAt = ""

SpecSh == InitSh /\ [][NextRun]_vars

\* the check of the declared rule has type ast
IsAstRule(e) == "type" \in Get(e.data, "check", NoCheck).has /\ e.data.check.type = "ast"

\* C23: a rule whose check has type "ast" is skipped by generate_sh: no part
\* of the script (wrapper call or stub) belongs to it, and the run of the
\* script reports nothing for it.
C23_AstSkipped ==
    \A i \in 1..Len(runData.rules) :
        IsAstRule(runData.rules[i]) =>
            /\ \A k \in 1..Len(script) : script[k].id # runData.rules[i].id
            /\ \A k \in 1..Len(log) : log[k].id # runData.rules[i].id

\* the check is of no type generate_check_command knows, or a
\* multi-condition check with fewer than 2 conditions
IsDisabledCheck(check) ==
    LET type == Get(check, "type", "")
    IN  \/ type \notin {"grep", "presence", "script", "multi-condition", "file_exists"}
        \/ type = "multi-condition" /\ Len(Get(check, "conditions", <<>>)) < 2

\* C26: for a check of unknown type or a multi-condition check with fewer
\* than 2 conditions generate_check_command returns a comment, and the
\* wrapper around it runs no command and counts the rule as passed.
C26_StubPasses ==
    [][(runState = "running" /\ ip <= Len(script) /\ script[ip].kind = "rule"
        /\ IsDisabledCheck(RuleOf(script[ip].id).check))
          => /\ Head(script[ip].cmd) \in {"# Unknown check type: ",
                                          "# multi-condition with < 2 conditions"}
             /\ executed' = executed
             /\ PASS' = PASS + 1 /\ FAIL' = FAIL /\ WARN' = WARN
             /\ log' = Append(log, Line("pass", script[ip].id, ""))]_vars

C26_Witness ==
    /\ runState = "exited" /\ exitedAt = "footer"
    /\ Len(runData.rules) = 2
    /\ runData.rules[1].data = RuleWithCheck("foo", TRUE)
    /\ runData.rules[2].data = RuleWithCheck("multi-1", TRUE)
    /\ PASS = 2 /\ FAIL = 0 /\ WARN = 0
    /\ executed = {}
    /\ exitStatus = 0

-----------------------------------------------------------------------------
(* Specification SpecGen: one parsed DomainSpec handed to generate_md,      *)
(* generate_sh and generate_rules_json, any number of times in any order,   *)
(* while the date changes                                                   *)

\* rules of every severity: a grep check, a presence check on API files, a
\* mechanical GUIDANCE rule, a rule that is not mechanical
GenRuleDatas ==
    {MkRuleData(RuleKeys, "T", "NEVER", TRUE, GrepCheck, FALSE),
     MkRuleData(RuleKeys, "T", "SHOULD", TRUE, PresenceCheck, TRUE),
     MkRuleData(RuleKeys, "T", "GUIDANCE", TRUE, GrepCheck, FALSE),
     MkRuleData(RuleKeys, "T", "MUST", FALSE, GrepCheck, FALSE)}

\* rule mappings of exactly n entries, declared from the highest id down
GenRuleSeqs(n) ==
    {[i \in 1..n |-> [id |-> IdAt(n + 1 - i), data |-> f[i]]] : f \in [1..n -> GenRuleDatas]}

\* two consecutive days
Days == <<"2026-01-01", "2026-01-02">>

Targets == {"md", "sh", "json"}

\* without the copy: the rules of the spec itself sorted for the export
SpecAfter_SortInPlace(target, spec) ==
    IF target = "json" THEN [spec EXCEPT !.rules = SortedBy(@, SortKeyLess)] ELSE spec

\* the DomainSpec after a target has run: rules_by_severity returns a new
\* sorted list, generate_rules_json sorts its own rules_list, and no target
\* assigns a field of the spec or of a rule
SpecAfter(target, spec) == spec

\* a heading that carries the date
Render_Dated(target, spec, today) ==
    IF target = "md" THEN <<MdLine("header", "", 0, spec.domain, today)>>
    ELSE IF target = "sh" THEN generate_sh(spec)
    ELSE generate_rules_json(spec)

\* md_content = generate_md(spec), sh_content = generate_sh(spec),
\* json_content = generate_rules_json(spec): the spec is the one argument,
\* and no generator reads the date
Render(target, spec, today) ==
    IF target = "md" THEN generate_md(spec)
    ELSE IF target = "sh" THEN generate_sh(spec)
    ELSE generate_rules_json(spec)

InitGen ==
    /\ EscIdle
    /\ RunIdle
    /\ PipeIdle
    /\ ValIdle
    /\ GateIdle
    /\ FragIdle
    /\ \E n \in 0..MaxRules : \E rs \in GenRuleSeqs(n) :
          \/ genSpec = <<parse_domain_spec(
                            MkData({"domain", "rules", "api_file_detection"}, "demo", rs,
                                   SomeDetection))>>
          \/ genSpec = <<parse_domain_spec(
                            [MkData({"domain", "rules", "info"}, "demo", rs, NoDetection)
                                EXCEPT !.info = <<"count">>])>>
    /\ genSpec0 = genSpec
    /\ genOut = <<>>
    /\ genToday = Days[1]

Generate(target) ==
    /\ genSpec # <<>>
    /\ Len(genOut) < MaxCalls
    /\ genOut' = Append(genOut, [target |-> target, day |-> genToday,
                                 content |-> Render(target, genSpec[1], genToday)])
    /\ genSpec' = <<SpecAfter(target, genSpec[1])>>
    /\ UNCHANGED <<genSpec0, genToday>>
    /\ UNCHANGED <<escVars, runVars, pipeVars, valVars, gateVars, fragVars>>

GenMd == Generate("md")

GenSh == Generate("sh")

GenJson == Generate("json")

\* midnight passes between two calls
GenMidnight ==
    /\ genToday = Days[1]
    /\ genToday' = Days[2]
    /\ UNCHANGED <<genSpec, genSpec0, genOut>>
    /\ UNCHANGED <<escVars, runVars, pipeVars, valVars, gateVars, fragVars>>

NextGen ==
    \/ GenMd
    \/ GenSh
    \/ GenJson
    \/ GenMidnight

SpecGen == InitGen /\ [][NextGen]_vars

-----------------------------------------------------------------------------
(* Running one compiled fragment: result=$("$@" 2>/dev/null) in the        *)
(* wrappers.  A line of the files is given by the regexes it matches; grep *)
(* selects the lines that match the word it received as its pattern.       *)

\* the grep branch of generate_check_command in flight-compile.py: with an
\* exclude, a pipeline in bash -c; every other branch reads the same
generate_check_command_v1(check) ==
    IF Get(check, "type", "") = "grep" /\ Get(check, "exclude", <<>>) # <<>>
    THEN <<"bash", SP, "-c", SP, SQ, "grep", SP>> \o Get(check, "flags", <<"-", "E">>)
         \o <<SP, DQ>> \o escape_pattern_for_bash_c(Get(check, "pattern", <<>>))
         \o <<DQ, SP, DQ, "$@", DQ, SP, "|", SP, "grep", SP, "-", "v", SP, DQ>>
         \o escape_pattern_for_bash_c(Get(check, "exclude", <<>>))
         \o <<DQ, SQ, SP, "_", SP, DQ, FILES_AT, DQ>>
    ELSE generate_check_command(check)

\* the words the shell makes of a text
ReadWords(text) == LexFinish(LexRange(text, 1, Len(text), LexStart))

\* what a command printed and the status it returned
Printed(lines, echoed, status) == [lines |-> lines, echoed |-> echoed, status |-> status]

\* the shell could not run the text as written (a syntax error, an
\* expansion): what is printed is not what the text spells
NotRun == Printed(<<>>, Unreadable, 2)

\* first position of the operator word op in words, or 0
FirstOp(words, op) ==
    IF \E i \in 1..Len(words) : words[i] = <<op>>
    THEN CHOOSE i \in 1..Len(words) : words[i] = <<op>> /\ \A j \in 1..(i - 1) : words[j] # <<op>>
    ELSE 0

\* grep FLAGS PATTERN [files]: -q prints nothing, -v selects the lines that
\* do not match; status 0 when a line is selected.  echo WORD prints the word.
RunSimple(words, input) ==
    IF Len(words) >= 3 /\ words[1] = <<"grep">> THEN
        LET flags == words[2]
            selected == SelectSeq(input, LAMBDA l :
                            (words[3] \in l.hits) # (flags = <<"-", "v">>))
        IN  Printed(IF Len(flags) >= 2 /\ flags[2] = "q" THEN <<>> ELSE selected,
                    <<>>, IF selected = <<>> THEN 1 ELSE 0)
    ELSE IF Len(words) = 2 /\ words[1] = <<"echo">> THEN Printed(<<>>, <<words[2]>>, 0)
    ELSE NotRun

\* left | right: right reads what left printed
RunPipeline(words, input) ==
    LET bar == FirstOp(words, "|")
    IN  IF bar = 0 THEN RunSimple(words, input)
        ELSE RunSimple(SubSeq(words, bar + 1, Len(words)),
                       RunSimple(SubSeq(words, 1, bar - 1), input).lines)

\* left || right: right runs when left returned a non-zero status
RunList(words, input) ==
    LET alt == FirstOp(words, "||")
        left == RunPipeline(SubSeq(words, 1, alt - 1), input)
        right == RunPipeline(SubSeq(words, alt + 1, Len(words)), input)
    IN  IF alt = 0 THEN RunPipeline(words, input)
        ELSE IF left.status = 0 THEN left
        ELSE Printed(left.lines \o right.lines, left.echoed \o right.echoed, right.status)

\* the fragment run by the top-level shell; bash -c SCRIPT is read again
RunFragment(command, input) ==
    LET outer == ReadWords(command)
        inner == ReadWords(outer.words[3])
    IN  IF ~outer.ok THEN NotRun
        ELSE IF IsBashC(outer.words)
        THEN (IF inner.ok THEN RunList(inner.words, input) ELSE NotRun)
        ELSE RunList(outer.words, input)

-----------------------------------------------------------------------------
(* Specification SpecFrag: compile one grep or presence check and run the  *)
(* fragment on a file set                                                  *)

SomePattern == <<"a">>

SomeExclude == <<"b">>

\* a file line matching these regexes
FileLine(n, hits) == [n |-> n, hits |-> hits]

\* file sets of at most n lines, each matching any of the regexes
RECURSIVE FileSets(_, _)
FileSets(n, regexes) ==
    IF n = 0 THEN {<<>>}
    ELSE LET shorter == FileSets(n - 1, regexes)
         IN  shorter \cup
             {Append(f, FileLine(n, hits))
                : f \in {x \in shorter : Len(x) = n - 1}, hits \in SUBSET regexes}

GrepWithExclude == [MkCheck({"type", "pattern", "exclude"}, "grep", SomePattern, <<>>, <<>>)
                      EXCEPT !.exclude = SomeExclude]

PresenceWithMessage(msg) == MkCheck({"type", "pattern", "message"}, "presence", SomePattern, msg, <<>>)

InitFrag ==
    /\ EscIdle
    /\ RunIdle
    /\ PipeIdle
    /\ ValIdle
    /\ GateIdle
    /\ GenIdle
    /\ fragCompiler \in {"flight-domain-compile", "flight-compile"}
    /\ \/ /\ fragCheck \in {GrepCheck, GrepWithExclude}
          /\ fragLines \in FileSets(MaxLines, {SomePattern, SomeExclude})
       \/ /\ \E msg \in SeqsUpTo(Alphabet, MaxMsgLen) : fragCheck = PresenceWithMessage(msg)
          /\ fragLines \in FileSets(MaxLines, {SomePattern})
    /\ fragCommand = <<>>
    /\ fragOutput = <<>>
    /\ fragPhase = "input"

\* cmd = generate_check_command(rule)
FragCompile ==
    /\ fragPhase = "input"
    /\ fragCommand' = IF fragCompiler = "flight-compile"
                      THEN generate_check_command_v1(fragCheck)
                      ELSE generate_check_command(fragCheck)
    /\ fragPhase' = "compiled"
    /\ UNCHANGED <<fragCompiler, fragCheck, fragLines, fragOutput>>
    /\ UNCHANGED <<escVars, runVars, pipeVars, valVars, gateVars, genVars>>

\* result=$("$@" 2>/dev/null) || true
FragRun ==
    /\ fragPhase = "compiled"
    /\ fragOutput' = <<RunFragment(fragCommand, fragLines)>>
    /\ fragPhase' = "ran"
    /\ UNCHANGED <<fragCompiler, fragCheck, fragLines, fragCommand>>
    /\ UNCHANGED <<escVars, runVars, pipeVars, valVars, gateVars, genVars>>

NextFrag ==
    \/ FragCompile
    \/ FragRun

SpecFrag == InitFrag /\ [][NextFrag]_vars

\* C21: the fragment compiled from a grep check with an exclude pattern
\* prints exactly the lines that match pattern and do not match exclude.
C21_ExcludeFilters ==
    (fragPhase = "ran" /\ fragCheck = GrepWithExclude) =>
        fragOutput[1].lines
            = SelectSeq(fragLines, LAMBDA l : SomePattern \in l.hits /\ SomeExclude \notin l.hits)

\* C22: the fragment compiled from a presence check prints exactly the
\* configured message when no line matches the pattern, and nothing when
\* some line matches.
C22_PresenceMessage ==
    (fragPhase = "ran" /\ fragCheck.type = "presence") =>
        IF \E i \in 1..Len(fragLines) : SomePattern \in fragLines[i].hits
        THEN fragOutput[1].lines = <<>> /\ fragOutput[1].echoed = <<>>
        ELSE fragOutput[1].lines = <<>> /\ fragOutput[1].echoed = <<fragCheck.message>>

-----------------------------------------------------------------------------
(* Specification SpecEsc: compile one check, then let the shell read it *)

EscChecks ==
    {MkCheck({"type", "pattern"}, "grep", p, <<>>, <<>>) : p \in Patterns}
    \cup {MkCheck({"type", "pattern"}, "presence", p, <<>>, <<>>) : p \in Patterns}
    \cup {MkCheck({"type", "conditions"}, "multi-condition", <<>>, <<>>,
                  <<[NoCond EXCEPT !.pattern = p], [NoCond EXCEPT !.pattern = <<"a", SQ>>]>>)
          : p \in Patterns}

InitEsc ==
    /\ RunIdle
    /\ PipeIdle
    /\ ValIdle
    /\ GateIdle
    /\ FragIdle
    /\ GenIdle
    /\ escCheck \in EscChecks
    /\ escFragment = <<>>
    /\ escText = <<>>
    /\ escPos = 1
    /\ escReader = LexStart
    /\ escSearched = <<>>
    /\ escPhase = "input"

\* generate_check_command renders the check
EscCompile ==
    /\ UNCHANGED <<runVars, pipeVars, valVars, gateVars, fragVars, genVars>>
    /\ escPhase = "input"
    /\ escFragment' = generate_check_command(escCheck)
    /\ escText' = generate_check_command(escCheck)
    /\ escPhase' = "outer"
    /\ UNCHANGED <<escCheck, escPos, escReader, escSearched>>

\* the shell reads the next tokens of its text
EscRead ==
    /\ UNCHANGED <<runVars, pipeVars, valVars, gateVars, fragVars, genVars>>
    /\ escPhase \in {"outer", "inner"}
    /\ escPos <= Len(escText)
    /\ LET hi == IF escPos + ChunkLen - 1 < Len(escText)
                 THEN escPos + ChunkLen - 1 ELSE Len(escText)
       IN  /\ escReader' = LexRange(escText, escPos, hi, escReader)
           /\ escPos' = hi + 1
    /\ UNCHANGED <<escCheck, escFragment, escText, escSearched, escPhase>>

\* the top-level shell has read the fragment: it runs grep, or bash -c
EscRunOuter ==
    /\ UNCHANGED <<runVars, pipeVars, valVars, gateVars, fragVars, genVars>>
    /\ escPhase = "outer"
    /\ escPos > Len(escText)
    /\ LET w == LexFinish(escReader)
       IN  IF w.ok /\ IsBashC(w.words)
           THEN /\ escText' = w.words[3]
                /\ escPos' = 1
                /\ escReader' = LexStart
                /\ escPhase' = "inner"
                /\ UNCHANGED escSearched
           ELSE /\ escSearched' = IF w.ok THEN GrepPatterns(w.words) ELSE Unreadable
                /\ escPhase' = "interpreted"
                /\ UNCHANGED <<escText, escPos, escReader>>
    /\ UNCHANGED <<escCheck, escFragment>>

\* the second shell has read the bash -c script: it runs the greps
EscRunInner ==
    /\ UNCHANGED <<runVars, pipeVars, valVars, gateVars, fragVars, genVars>>
    /\ escPhase = "inner"
    /\ escPos > Len(escText)
    /\ LET w == LexFinish(escReader)
       IN  escSearched' = IF w.ok THEN GrepPatterns(w.words) ELSE Unreadable
    /\ escPhase' = "interpreted"
    /\ UNCHANGED <<escCheck, escFragment, escText, escPos, escReader>>

NextEsc == EscCompile \/ EscRead \/ EscRunOuter \/ EscRunInner

SpecEsc == InitEsc /\ [][NextEsc]_vars

\* C2: a grep check's fragment, read by the shell under double-quote rules,
\* searches for exactly the declared pattern.
C2_DirectRoundTrip ==
    (escPhase = "interpreted" /\ escCheck.type = "grep")
        => escSearched = <<escCheck.pattern>>

C2_Witness ==
    /\ escPhase = "interpreted"
    /\ escCheck.type = "grep"
    /\ {BS, DQ, DOLLAR, BT} \subseteq {escCheck.pattern[i] : i \in 1..Len(escCheck.pattern)}
    /\ escSearched = <<escCheck.pattern>>

\* C3: a presence or multi-condition fragment, read first by the outer shell
\* (single-quoted bash -c argument) and then by the inner shell (double
\* quotes), searches for exactly the declared patterns.
C3_NestedRoundTrip ==
    (escPhase = "interpreted" /\ escCheck.type \in {"presence", "multi-condition"})
        => escSearched = DeclaredPatterns(escCheck)

C3_Witness ==
    /\ escPhase = "interpreted"
    /\ escCheck.type = "multi-condition"
    /\ {SQ, BS, DQ} \subseteq {escCheck.conditions[1].pattern[i] : i \in 1..Len(escCheck.conditions[1].pattern)}
    /\ escSearched = DeclaredPatterns(escCheck)

=============================================================================
